---- MODULE Spec2Model ----
(***************************************************************************)
(* A model of tsapp.py, the presentation engine of RandomChooser:          *)
(*   - GraphicsWindow: the draw list, the layer operations and             *)
(*     finish_frame (draw/update pass, reaping, event capture);            *)
(*   - Sound: play / pause / unpause / stop over the mixer's channel pool; *)
(*   - TextLabel: the greedy word wrap of _wrap_into_lines;                *)
(*   - Sprite: the image, the transformed-cell cache, the scale / angle /  *)
(*     flip setters and the cell animation of _update.                     *)
(* Every operation is one atomic action (the engine is single-threaded).   *)
(* `last' records the operation that ran last and what it returned or      *)
(* raised; `frame_log' is the ordered trace of the calls the last          *)
(* finish_frame() made.                                                    *)
(***************************************************************************)
EXTENDS Integers, Sequences, FiniteSets, TLC

VARIABLES
    draw_list,      \* GraphicsWindow._draw_list, back (1) to front (Len)
    destroyed,      \* objects whose GraphicalObject._destroyed is True
    visible,        \* objects whose GraphicalObject.visible is True
    events,         \* _current_frame_event_list
    queue,          \* the backend's queue of pending input events
    is_running,     \* GraphicsWindow.is_running
    frame_log,      \* calls made by the last finish_frame(), in order
    active_window,  \* whether _active_window is set
    channels,       \* the mixer's channel pool, channel 0 first
    snd_paused,     \* Sound._paused of every Sound
    pause_called,   \* history: pause() called with no later unpause()/stop()
    refused,        \* history: play() raised since the sound's last pause()
    lbl_text,       \* TextLabel._text, a sequence of characters
    lbl_width,      \* TextLabel._width, the wrap width
    lbl_font,       \* TextLabel._font, the font it measures with
    lbl_lines,      \* TextLabel._lines
    lbl_line_spacing,       \* TextLabel._line_spacing, in tenths
    lbl_pixel_line_height,  \* TextLabel._pixel_line_height, in tenths of a
                            \* pixel
    sprite,         \* the fields of one Sprite
    anim_run,       \* history: the delta_time of every frame since the image
                    \* was assigned, when nothing else was assigned since
    file,           \* the text of the class file, a sequence of characters
    choices,        \* the list `choices' of the chooser
    choice,         \* what get_next returned last
    loaded,         \* history: the list as load_class returned it
    picked,         \* history: the items get_next returned since the load
    last            \* the last operation: [op, arg, ret, val]

scene_vars ==
    <<draw_list, destroyed, visible, events, queue, is_running, frame_log>>

sound_vars == <<active_window, channels, snd_paused, pause_called, refused>>

label_vars ==
    <<lbl_text, lbl_width, lbl_font, lbl_lines, lbl_line_spacing,
      lbl_pixel_line_height>>

sprite_vars == <<sprite, anim_run>>

picker_vars == <<file, choices, choice, loaded, picked>>

vars ==
    <<scene_vars, sound_vars, label_vars, sprite_vars, picker_vars, last>>

----------------------------------------------------------------------------
(* Bounds of the model *)

\* add_object() is not offered once the draw list holds this many entries
MaxDrawList == 3

\* the mixer may start with up to this many channels fewer than the ceiling
MaxBelowCeiling == 2

\* the longest text of the label, in characters
MaxTextLen == 5

\* the largest wrap width of the label, in pixels
MaxWidth == 8

\* frames are not offered once the accumulated cell time would pass this
\* many tenths of a second
MaxCellTime == 8

\* anim_run records at most this many frames
MaxRun == 3

\* a class file holds at most this many characters
MaxFileLen == 4

----------------------------------------------------------------------------
(* Values *)

\* the GraphicalObjects of the program (Sprites and TextLabels)
Objects == {"A", "B", "C"}

\* a value that is not a GraphicalObject
NotDrawable == "X"

\* pygame event types the engine looks at
QUIT == "QUIT"

KEYDOWN == "KEYDOWN"

KEYUP == "KEYUP"

MOUSEBUTTONDOWN == "MOUSEBUTTONDOWN"

MOUSEBUTTONUP == "MOUSEBUTTONUP"

\* the keys of the keyboard (pygame.K_a, pygame.K_b)
Keys == {"a", "b"}

\* no key: the key_constant of a query called without one, and the key of
\* an event that is not a key event
NoKey == "-"

\* a pygame event: its type and, for a key event, its key
Event(type, key) == [type |-> type, key |-> key]

\* what the backend queues between two frames of the frame model
EventBatches ==
    {<<Event(MOUSEBUTTONDOWN, NoKey)>>,
     <<Event(MOUSEBUTTONUP, NoKey)>>,
     <<Event(KEYDOWN, "a")>>,
     <<Event(KEYUP, "a")>>,
     <<Event(QUIT, NoKey)>>,
     <<Event(KEYDOWN, "b"), Event(KEYUP, "b")>>,
     <<Event(MOUSEBUTTONDOWN, NoKey), Event(QUIT, NoKey)>>,
     <<Event(KEYDOWN, "a"), Event(MOUSEBUTTONDOWN, NoKey),
       Event(MOUSEBUTTONUP, NoKey)>>}

\* what `last' holds: the operation, its argument, what it returned or raised
\* ("None", "True", "False" or the error's name) and, for "int", the number
Op(name, arg, ret) == [op |-> name, arg |-> arg, ret |-> ret, val |-> -1]

OpVal(name, arg, v) == [op |-> name, arg |-> arg, ret |-> "int", val |-> v]

----------------------------------------------------------------------------
(* Python list primitives *)

\* x in lst
InList(x, lst) == \E i \in 1..Len(lst) : lst[i] = x

\* lst.index(x): the 0-based index of the first occurrence
Index(x, lst) == (CHOOSE i \in 1..Len(lst) :
                     lst[i] = x /\ \A j \in 1..(i-1) : lst[j] # x) - 1

\* lst.remove(x): drops the first occurrence
Remove(lst, x) ==
    LET p == Index(x, lst) + 1
    IN  [i \in 1..(Len(lst) - 1) |-> IF i < p THEN lst[i] ELSE lst[i + 1]]

\* lst.insert(k, x) with a 0-based k <= len(lst)
Insert(lst, k, x) ==
    [i \in 1..(Len(lst) + 1) |->
        IF i <= k THEN lst[i] ELSE IF i = k + 1 THEN x ELSE lst[i - 1]]

\* lst[p], lst[q] = lst[q], lst[p] with 1-based p, q
Swap(lst, p, q) == [lst EXCEPT ![p] = lst[q], ![q] = lst[p]]

\* number of occurrences of x
Count(x, lst) == Cardinality({i \in 1..Len(lst) : lst[i] = x})

----------------------------------------------------------------------------
(* GraphicsWindow.finish_frame *)

\* a faulty variant: the loop body without the destroyed test
DrawItem_NoDestroyedTest(o, dead, vis) ==
    <<<<"draw", o>>>> \o (IF o \in vis THEN <<<<"blit", o>>>> ELSE <<>>)
    \o <<<<"update", o>>>>

\* one iteration of the draw loop: draw unless destroyed, then update
DrawItem(o, dead, vis) ==
    (IF o \notin dead
        THEN <<<<"draw", o>>>> \o (IF o \in vis THEN <<<<"blit", o>>>> ELSE <<>>)
        ELSE <<>>)
    \o <<<<"update", o>>>>

\* a faulty variant: two loops: every object drawn, then every object updated
RECURSIVE DrawAll(_, _, _)
DrawAll(lst, dead, vis) ==
    IF lst = <<>> THEN <<>>
    ELSE (IF Head(lst) \notin dead
             THEN <<<<"draw", Head(lst)>>>>
                  \o (IF Head(lst) \in vis THEN <<<<"blit", Head(lst)>>>> ELSE <<>>)
             ELSE <<>>)
         \o DrawAll(Tail(lst), dead, vis)

DrawPass_TwoLoops(lst, dead, vis) ==
    DrawAll(lst, dead, vis) \o [i \in 1..Len(lst) |-> <<"update", lst[i]>>]

\* the draw loop over the draw list, back to front
RECURSIVE DrawPass(_, _, _)
DrawPass(lst, dead, vis) ==
    IF lst = <<>> THEN <<>>
    ELSE DrawItem(Head(lst), dead, vis) \o DrawPass(Tail(lst), dead, vis)

\* destroyed_items, in the order the loop met them
DestroyedItems(lst, dead) == SelectSeq(lst, LAMBDA o : o \in dead)

\* a faulty variant: the reaping loop left out
Reap_Skipped(lst, items) == lst

\* for item in destroyed_items: draw_list.remove(item)
RECURSIVE Reap(_, _)
Reap(lst, items) ==
    IF items = <<>> THEN lst
    ELSE Reap(Remove(lst, Head(items)), Tail(items))

ReapLog(items) == [i \in 1..Len(items) |-> <<"remove", items[i]>>]

\* a faulty variant: only the first event of the frame is looked at
QuitSeen_FirstOnly(evs) == evs # <<>> /\ evs[1].type = QUIT

\* the QUIT check after the capture
QuitSeen(evs) == \E i \in 1..Len(evs) : evs[i].type = QUIT

\* a faulty variant: the events of the frame are added to those of the frame before
Capture_Accumulates(old_events, pending) == old_events \o pending

\* _current_frame_event_list = pygame.event.get()
Capture(old_events, pending) == pending

finish_frame(pending) ==
    LET items == DestroyedItems(draw_list, destroyed)
    IN  /\ draw_list' = Reap(draw_list, items)
        /\ events' = Capture(events, pending)
        /\ is_running' = (IF QuitSeen(pending) THEN FALSE ELSE is_running)
        /\ frame_log' = <<<<"fill", "-">>>>
                        \o DrawPass(draw_list, destroyed, visible)
                        \o <<<<"flip", "-">>>>
                        \o ReapLog(items)
                        \o <<<<"capture", "-">>>>
        /\ last' = Op("finish_frame", "-", "None")
        /\ UNCHANGED <<destroyed, visible>>

----------------------------------------------------------------------------
(* GraphicsWindow.add_object, GraphicalObject.destroy, .visible *)

add_object(x) ==
    /\ Len(draw_list) < MaxDrawList
    /\ IF x \notin Objects
          THEN /\ last' = Op("add_object", x, "TypeError")
               /\ UNCHANGED draw_list
          ELSE /\ draw_list' = Append(draw_list, x)
               /\ last' = Op("add_object", x, "None")
    /\ frame_log' = <<>>
    /\ UNCHANGED <<destroyed, visible, events, is_running>>

destroy(o) ==
    /\ destroyed' = destroyed \cup {o}
    /\ last' = Op("destroy", o, "None")
    /\ frame_log' = <<>>
    /\ UNCHANGED <<draw_list, visible, events, is_running>>

set_visible(o, b) ==
    /\ visible' = (IF b THEN visible \cup {o} ELSE visible \ {o})
    /\ last' = Op("set_visible", o, "None")
    /\ frame_log' = <<>>
    /\ UNCHANGED <<draw_list, destroyed, events, is_running>>

----------------------------------------------------------------------------
(* GraphicsWindow layer operations *)

\* a faulty variant: the missing object is put into the scene instead
NotInScene_AddsIt(name, o) ==
    /\ ~InList(o, draw_list)
    /\ draw_list' = Append(draw_list, o)
    /\ last' = Op(name, o, "ValueError")
    /\ frame_log' = <<>>
    /\ UNCHANGED <<destroyed, visible, events, is_running>>

\* the ValueError every layer operation raises for an object not in the scene
NotInScene(name, o) ==
    /\ ~InList(o, draw_list)
    /\ last' = Op(name, o, "ValueError")
    /\ frame_log' = <<>>
    /\ UNCHANGED <<draw_list, destroyed, visible, events, is_running>>

\* a layer operation that went through and left new_list
Relayer(name, o, new_list) ==
    /\ InList(o, draw_list)
    /\ draw_list' = new_list
    /\ last' = Op(name, o, "None")
    /\ frame_log' = <<>>
    /\ UNCHANGED <<destroyed, visible, events, is_running>>

\* a faulty variant: the front-most object goes round to the back
MoveForward_Wraps(lst, o) ==
    LET position == Index(o, lst) + 1
    IN  IF position = Len(lst) THEN Swap(lst, position, 1)
                               ELSE Swap(lst, position, position + 1)

MoveForward(lst, o) ==
    LET position == Index(o, lst) + 1
    IN  IF position = Len(lst) THEN lst ELSE Swap(lst, position, position + 1)

MoveToFront(lst, o) == Append(Remove(lst, o), o)

MoveBackward(lst, o) ==
    LET position == Index(o, lst) + 1
    IN  IF position = 1 THEN lst ELSE Swap(lst, position, position - 1)

\* a faulty variant: the object is put at the back and its old entry is kept
MoveToBack_KeepsCopy(lst, o) == Insert(lst, 0, o)

MoveToBack(lst, o) == Insert(Remove(lst, o), 0, o)

\* a faulty variant: an index past the end puts the object at the back
SetLayer_ClampToBack(lst, o, layer_index) ==
    LET rest == Remove(lst, o)
    IN  IF layer_index >= Len(rest) THEN <<o>> \o rest
                                    ELSE Insert(rest, layer_index, o)

SetLayer(lst, o, layer_index) ==
    LET rest == Remove(lst, o)
    IN  IF layer_index >= Len(rest) THEN Append(rest, o)
        ELSE Insert(rest, layer_index, o)

\* move_forward and move_backward: `last' keeps the position that
\* list.index found
Shift(name, o, new_list) ==
    /\ InList(o, draw_list)
    /\ draw_list' = new_list
    /\ last' = [Op(name, o, "None") EXCEPT !.val = Index(o, draw_list)]
    /\ frame_log' = <<>>
    /\ UNCHANGED <<destroyed, visible, events, is_running>>

move_forward(o) ==
    \/ NotInScene("move_forward", o)
    \/ Shift("move_forward", o, MoveForward(draw_list, o))

move_to_front(o) ==
    \/ NotInScene("move_to_front", o)
    \/ Relayer("move_to_front", o, MoveToFront(draw_list, o))

move_backward(o) ==
    \/ NotInScene("move_backward", o)
    \/ Shift("move_backward", o, MoveBackward(draw_list, o))

move_to_back(o) ==
    \/ NotInScene("move_to_back", o)
    \/ Relayer("move_to_back", o, MoveToBack(draw_list, o))

get_layer(o) ==
    /\ last' = (IF InList(o, draw_list)
                   THEN OpVal("get_layer", o, Index(o, draw_list))
                   ELSE Op("get_layer", o, "ValueError"))
    /\ frame_log' = <<>>
    /\ UNCHANGED <<draw_list, destroyed, visible, events, is_running>>

set_layer(o, layer_index) ==
    \/ /\ layer_index < 0
       /\ last' = Op("set_layer", o, "ValueError")
       /\ frame_log' = <<>>
       /\ UNCHANGED <<draw_list, destroyed, visible, events, is_running>>
    \/ /\ layer_index >= 0
       /\ NotInScene("set_layer", o)
    \/ /\ layer_index >= 0
       /\ InList(o, draw_list)
       /\ draw_list' = SetLayer(draw_list, o, layer_index)
       /\ last' = [Op("set_layer", o, "None") EXCEPT !.val = layer_index]
       /\ frame_log' = <<>>
       /\ UNCHANGED <<destroyed, visible, events, is_running>>

----------------------------------------------------------------------------
(* Input: the backend's event queue and the was_... queries *)

\* the backend queues the events of a batch; they stay there until the
\* next pygame.event.get()
input(batch) ==
    /\ queue = <<>>
    /\ queue' = batch
    /\ last' = Op("input", "-", "None")
    /\ frame_log' = <<>>
    /\ UNCHANGED <<draw_list, destroyed, visible, events, is_running>>

\* finish_frame() with pygame.event.get() emptying the backend's queue
drain_frame ==
    /\ finish_frame(queue)
    /\ queue' = <<>>

\* a faulty variant: the key of the event is not looked at
Matches_AnyKey(event, type, key_constant) == event.type = type

\* the test in the loop of a query: the type, and the key if one was given
Matches(event, type, key_constant) ==
    /\ event.type = type
    /\ key_constant = NoKey \/ event.key = key_constant

\* for event in _current_frame_event_list: ... return True; return False
WasEvent(evs, type, key_constant) ==
    \E i \in 1..Len(evs) : Matches(evs[i], type, key_constant)

\* a query: reads the event list of the frame and changes nothing
Query(name, type, key_constant) ==
    /\ last' = Op(name, key_constant,
                  IF WasEvent(events, type, key_constant) THEN "True"
                                                          ELSE "False")
    /\ frame_log' = <<>>
    /\ UNCHANGED <<draw_list, destroyed, visible, events, is_running, queue>>

was_key_pressed(key_constant) == Query("was_key_pressed", KEYDOWN, key_constant)

was_key_released(key_constant) == Query("was_key_released", KEYUP, key_constant)

was_mouse_pressed == Query("was_mouse_pressed", MOUSEBUTTONDOWN, NoKey)

was_mouse_released == Query("was_mouse_released", MOUSEBUTTONUP, NoKey)

----------------------------------------------------------------------------
(* Sound: the mixer's channel pool *)

MAX_AUDIO_CHANNELS == 8

\* the Sounds of the program; one is constructed unique, one is not
Sounds == {"drums", "effect"}

Unique(s) == s = "drums"

\* a channel is free, or plays (possibly paused) one Sound
Free == [snd |-> "none", paused |-> FALSE]

Busy(c) == c.snd # "none"

\* pygame.mixer.find_channel(): the first channel that is not busy, 0 if none
FindChannel(chs) ==
    IF \E i \in 1..Len(chs) : ~Busy(chs[i])
       THEN CHOOSE i \in 1..Len(chs) :
               ~Busy(chs[i]) /\ \A j \in 1..(i - 1) : Busy(chs[j])
       ELSE 0

\* Sound.get_num_copies(): the channels this Sound is on
NumCopies(s, chs) == Cardinality({i \in 1..Len(chs) : chs[i].snd = s})

NumBusy(chs) == Cardinality({i \in 1..Len(chs) : Busy(chs[i])})

\* a faulty variant: the ceiling test off by one
CanGrow_OffByOne(chs) == Len(chs) <= MAX_AUDIO_CHANNELS

\* pygame.mixer.get_num_channels() < MAX_AUDIO_CHANNELS
CanGrow(chs) == Len(chs) < MAX_AUDIO_CHANNELS

\* a faulty variant: the pool grows by two channels
Grown_ByTwo(chs) ==
    IF FindChannel(chs) = 0 /\ CanGrow(chs)
       THEN Append(Append(chs, Free), Free)
       ELSE chs

\* the pool after play()'s first test: one channel more when none is free
\* and the ceiling allows it
Grown(chs) ==
    IF FindChannel(chs) = 0 /\ CanGrow(chs) THEN Append(chs, Free) ELSE chs

\* play()'s "maxed out" test: no channel free and the ceiling reached
MaxedOut(chs) == ~(FindChannel(chs) = 0 /\ CanGrow(chs)) /\ FindChannel(chs) = 0

\* a faulty variant: the uniqueness test left out
UniqueBusy_Off(s, chs) == FALSE

\* play()'s uniqueness test
UniqueBusy(s, chs) == Unique(s) /\ NumCopies(s, chs) > 0

\* pygame Sound.play(): the Sound starts on the first free channel
StartOn(chs, s) ==
    IF FindChannel(chs) = 0 THEN chs
    ELSE [chs EXCEPT ![FindChannel(chs)] = [snd |-> s, paused |-> FALSE]]

\* a faulty variant: only the first channel of the Sound is paused or unpaused
SetPaused_FirstOnly(chs, s, b) ==
    [i \in 1..Len(chs) |->
        IF chs[i].snd = s /\ \A j \in 1..(i - 1) : chs[j].snd # s
           THEN [chs[i] EXCEPT !.paused = b] ELSE chs[i]]

\* the loop of pause() and unpause() over every channel of the mixer
SetPaused(chs, s, b) ==
    [i \in 1..Len(chs) |->
        IF chs[i].snd = s THEN [chs[i] EXCEPT !.paused = b] ELSE chs[i]]

\* a faulty variant: only the first channel of the Sound is halted
StopAll_FirstOnly(chs, s) ==
    [i \in 1..Len(chs) |->
        IF chs[i].snd = s /\ \A j \in 1..(i - 1) : chs[j].snd # s
           THEN Free ELSE chs[i]]

\* pygame Sound.stop(): every channel the Sound is on is halted
StopAll(chs, s) ==
    [i \in 1..Len(chs) |-> IF chs[i].snd = s THEN Free ELSE chs[i]]

\* a faulty variant: stop() leaves the paused flag as it was
FlagAfterStop_Kept(flags, s) == flags

\* stop() clears the Sound's paused flag
FlagAfterStop(flags, s) == [flags EXCEPT ![s] = FALSE]

create_window ==
    /\ ~active_window
    /\ active_window' = TRUE
    /\ last' = Op("create_window", "-", "None")
    /\ UNCHANGED <<channels, snd_paused, pause_called, refused>>

play(s) ==
    IF snd_paused[s]
       THEN /\ last' = Op("play", s, "PlayWhilePaused")
            /\ refused' = refused \cup {s}
            /\ UNCHANGED <<active_window, channels, snd_paused, pause_called>>
    ELSE IF ~active_window
       THEN /\ last' = Op("play", s, "NoActiveWindow")
            /\ UNCHANGED sound_vars
    ELSE IF MaxedOut(channels)
       THEN /\ last' = Op("play", s, "False")
            /\ UNCHANGED sound_vars
    ELSE IF UniqueBusy(s, Grown(channels))
       THEN /\ channels' = Grown(channels)
            /\ last' = Op("play", s, "False")
            /\ UNCHANGED <<active_window, snd_paused, pause_called, refused>>
    ELSE /\ channels' = StartOn(Grown(channels), s)
         /\ last' = Op("play", s, "True")
         /\ UNCHANGED <<active_window, snd_paused, pause_called, refused>>

stop(s) ==
    /\ channels' = StopAll(channels, s)
    /\ snd_paused' = FlagAfterStop(snd_paused, s)
    /\ pause_called' = [pause_called EXCEPT ![s] = FALSE]
    /\ last' = Op("stop", s, "None")
    /\ UNCHANGED <<active_window, refused>>

pause(s) ==
    /\ channels' = SetPaused(channels, s, TRUE)
    /\ snd_paused' = [snd_paused EXCEPT ![s] = TRUE]
    /\ pause_called' = [pause_called EXCEPT ![s] = TRUE]
    /\ refused' = refused \ {s}
    /\ last' = Op("pause", s, "None")
    /\ UNCHANGED active_window

unpause(s) ==
    /\ channels' = SetPaused(channels, s, FALSE)
    /\ snd_paused' = [snd_paused EXCEPT ![s] = FALSE]
    /\ pause_called' = [pause_called EXCEPT ![s] = FALSE]
    /\ last' = Op("unpause", s, "None")
    /\ UNCHANGED <<active_window, refused>>

\* the backend: a channel that is playing (not paused) reaches the end of its
\* clip and becomes free
channel_done(i) ==
    /\ i \in 1..Len(channels)
    /\ Busy(channels[i])
    /\ ~channels[i].paused
    /\ channels' = [channels EXCEPT ![i] = Free]
    /\ last' = Op("channel_done", "-", "None")
    /\ UNCHANGED <<active_window, snd_paused, pause_called, refused>>

----------------------------------------------------------------------------
(* TextLabel: the word wrap *)

\* characters: two letters, the space and the newline
SP == " "

NL == "\n"

Alphabet == {"a", "b", SP, NL}

\* the fonts of the model: "plain" measures a string as the sum of its
\* glyphs, "tight" and "loose" measure some pairs of neighbours narrower or
\* wider, so the width of a string is not the sum of the widths of its parts
Fonts == {"plain", "tight", "loose"}

\* pygame.freetype.Font(font_name, font_size): the font object a label
\* measures with; the size is a whole multiple of the size at which the
\* glyphs have the advances below
Font(font_name, font_size) == [name |-> font_name, size |-> font_size]

\* the advance of one glyph
Adv(c) == IF c = "a" THEN 2 ELSE IF c = "b" THEN 3 ELSE IF c = SP THEN 1 ELSE 0

\* what a font adds for two neighbouring glyphs
Kern(f, c, d) ==
    IF f.name = "tight" /\ <<c, d>> \in {<<"a", "b">>, <<SP, "b">>, <<"a", SP>>}
       THEN -1
    ELSE IF f.name = "loose" /\ <<c, d>> \in {<<"b", "a">>, <<SP, "a">>, <<"b", SP>>}
       THEN 1
    ELSE 0

\* font.get_rect(str).width
RECURSIVE Measure(_, _)
Measure(f, str) ==
    IF str = <<>> THEN 0
    ELSE IF Len(str) = 1 THEN f.size * Adv(str[1])
    ELSE f.size * (Adv(str[1]) + Kern(f, str[1], str[2]))
         + Measure(f, Tail(str))

\* str.split(sep)
RECURSIVE Split(_, _)
Split(str, sep) ==
    IF \A i \in 1..Len(str) : str[i] # sep THEN <<str>>
    ELSE LET p == CHOOSE i \in 1..Len(str) :
                     str[i] = sep /\ \A j \in 1..(i - 1) : str[j] # sep
         IN  <<SubSeq(str, 1, p - 1)>> \o Split(SubSeq(str, p + 1, Len(str)), sep)

\* a faulty variant: the width of the candidate line as the sum of the widths of its
\* parts
NextWidth_SumOfParts(f, line, word) ==
    IF line = <<>> THEN Measure(f, word)
    ELSE Measure(f, line) + Measure(f, <<SP>>) + Measure(f, word)

\* next_width: the measured width of the line with the word added
NextWidth(f, line, word) ==
    IF line = <<>> THEN Measure(f, word)
    ELSE Measure(f, line \o <<SP>> \o word)

\* a faulty variant: the committed line is not cleared before the word is added
WrapWord_LineKept(st, word, f, w) ==
    IF NextWidth(f, st.line, word) > w
       THEN IF st.line = <<>>
               THEN [line |-> <<>>, total |-> Append(st.total, word)]
               ELSE [line |-> st.line \o <<SP>> \o word,
                     total |-> Append(st.total, st.line)]
       ELSE [line |-> (IF st.line = <<>> THEN word
                       ELSE st.line \o <<SP>> \o word),
             total |-> st.total]

\* a faulty variant: the line is committed as soon as the candidate reaches
\* the width
WrapWord_CommitAtWidth(st, word, f, w) ==
    IF NextWidth(f, st.line, word) >= w
       THEN IF st.line = <<>>
               THEN [line |-> <<>>, total |-> Append(st.total, word)]
               ELSE [line |-> word, total |-> Append(st.total, st.line)]
       ELSE [line |-> (IF st.line = <<>> THEN word
                       ELSE st.line \o <<SP>> \o word),
             total |-> st.total]

\* one iteration of the loop over the words of a paragraph;
\* st is [line: intermediate_line, total: total_lines]
WrapWord(st, word, f, w) ==
    IF NextWidth(f, st.line, word) > w
       THEN IF st.line = <<>>
               THEN [line |-> <<>>, total |-> Append(st.total, word)]
               ELSE [line |-> word, total |-> Append(st.total, st.line)]
       ELSE [line |-> (IF st.line = <<>> THEN word
                       ELSE st.line \o <<SP>> \o word),
             total |-> st.total]

\* the loop over the words of one paragraph
RECURSIVE WrapWords(_, _, _, _)
WrapWords(st, words, f, w) ==
    IF words = <<>> THEN st
    ELSE WrapWords(WrapWord(st, Head(words), f, w), Tail(words), f, w)

\* the loop over the paragraphs: each ends by appending its last line
RECURSIVE WrapParagraphs(_, _, _, _)
WrapParagraphs(total, hard_lines, f, w) ==
    IF hard_lines = <<>> THEN total
    ELSE LET st == WrapWords([line |-> <<>>, total |-> total],
                             Split(Head(hard_lines), SP), f, w)
         IN  WrapParagraphs(Append(st.total, st.line), Tail(hard_lines), f, w)

\* TextLabel._wrap_into_lines
WrapIntoLines(str, f, w) == WrapParagraphs(<<>>, Split(str, NL), f, w)

\* what `last' holds after a setter of the label: they return nothing
LabelSet == Op("label_setter", "-", "None")

\* label.text = label.text + c
set_text(c) ==
    /\ Len(lbl_text) < MaxTextLen
    /\ lbl_text' = Append(lbl_text, c)
    /\ lbl_lines' = WrapIntoLines(lbl_text', lbl_font, lbl_width)
    /\ last' = LabelSet
    /\ UNCHANGED <<lbl_width, lbl_font, lbl_line_spacing, lbl_pixel_line_height>>

\* label.text = ""
clear_text ==
    /\ lbl_text' = <<>>
    /\ lbl_lines' = WrapIntoLines(lbl_text', lbl_font, lbl_width)
    /\ last' = LabelSet
    /\ UNCHANGED <<lbl_width, lbl_font, lbl_line_spacing, lbl_pixel_line_height>>

set_width(new_width) ==
    /\ lbl_width' = new_width
    /\ lbl_lines' = WrapIntoLines(lbl_text, lbl_font, lbl_width')
    /\ last' = LabelSet
    /\ UNCHANGED <<lbl_text, lbl_font, lbl_line_spacing, lbl_pixel_line_height>>

\* font.get_rect(full_alphabet).height: the height of the reference
\* alphabet, which differs from font to font and grows with the size
AlphabetHeight(f) ==
    f.size * (IF f.name = "tight" THEN 3 ELSE IF f.name = "loose" THEN 5 ELSE 4)

\* what _update_pixel_line_height stores, in tenths of a pixel
PixelLineHeight(f, spacing) == AlphabetHeight(f) * spacing

\* label.font = font_name: a new font object of the current size; the text
\* is wrapped again, the line height is left as it was
set_font(font_name) ==
    /\ lbl_font' = Font(font_name, lbl_font.size)
    /\ lbl_lines' = WrapIntoLines(lbl_text, lbl_font', lbl_width)
    /\ last' = [LabelSet EXCEPT !.op = "set_font"]
    /\ UNCHANGED <<lbl_text, lbl_width, lbl_line_spacing, lbl_pixel_line_height>>

\* a faulty variant: the size is stored and the lines are left as they were
set_font_size_NoWrap(new_size) ==
    /\ lbl_font' = [lbl_font EXCEPT !.size = new_size]
    /\ lbl_pixel_line_height' = PixelLineHeight(lbl_font', lbl_line_spacing)
    /\ last' = [LabelSet EXCEPT !.op = "set_font_size"]
    /\ UNCHANGED <<lbl_text, lbl_width, lbl_lines, lbl_line_spacing>>

\* label.font_size = new_size
set_font_size(new_size) ==
    /\ lbl_font' = [lbl_font EXCEPT !.size = new_size]
    /\ lbl_lines' = WrapIntoLines(lbl_text, lbl_font', lbl_width)
    /\ lbl_pixel_line_height' = PixelLineHeight(lbl_font', lbl_line_spacing)
    /\ last' = [LabelSet EXCEPT !.op = "set_font_size"]
    /\ UNCHANGED <<lbl_text, lbl_width, lbl_line_spacing>>

\* label.line_spacing = spacing
set_line_spacing(spacing) ==
    /\ lbl_line_spacing' = spacing
    /\ lbl_pixel_line_height' = PixelLineHeight(lbl_font, lbl_line_spacing')
    /\ last' = [LabelSet EXCEPT !.op = "set_line_spacing"]
    /\ UNCHANGED <<lbl_text, lbl_width, lbl_font, lbl_lines>>

\* label.height
height == lbl_pixel_line_height * Len(lbl_lines)

\* the line spacing the constructor sets, 1.2
DefaultLineSpacing == 12

\* TextLabel(font_name, font_size, x, y, w), made with the default text
NewLabel(font_name, font_size, w) ==
    /\ lbl_text = <<>>
    /\ lbl_width = w
    /\ lbl_font = Font(font_name, font_size)
    /\ lbl_lines = WrapIntoLines(<<>>, lbl_font, w)
    /\ lbl_line_spacing = DefaultLineSpacing
    /\ lbl_pixel_line_height = PixelLineHeight(lbl_font, lbl_line_spacing)

\* the label of the other specifications, which never touch it
LabelIdle == NewLabel("plain", 1, 0)

----------------------------------------------------------------------------
(* Sprite: images, cells and the transformed-cell cache *)

\* Python's None, and a value that is not None
None == <<>>

Some(v) == <<v>>

\* int(n / d) for d > 0: truncation toward zero
ToInt(n, d) == IF n >= 0 THEN n \div d ELSE -((-n) \div d)

\* a time of n milliseconds; times are held in sixths of a millisecond, so
\* that 1000 / rate is a whole number for the rates of the model
Ms(n) == 6 * n

\* the image files of the model: "still.png" has no .json beside it,
\* "sheet.png" has one that says 1 row of 3 columns
Images == {"still.png", "sheet.png"}

\* json.load of the .json beside the image, None when open() raises IOError
MetaFile(d) ==
    IF d = "sheet.png" THEN Some([rows |-> 1, cols |-> 3]) ELSE None

\* pygame.image.load(d).get_size()
ImageSize(d) ==
    IF d = "sheet.png" THEN [w |-> 5, h |-> 3] ELSE [w |-> 4, h |-> 2]

\* ImageSheet(d, rows, cols).cells: cells of equal size, by integer division
SheetCells(d, rows, cols) ==
    [i \in 1..(rows * cols) |->
        [w |-> ImageSize(d).w \div cols, h |-> ImageSize(d).h \div rows]]

\* the cells _set_image loads for a descriptor
LoadCells(d) ==
    IF MetaFile(d) # None
       THEN SheetCells(d, MetaFile(d)[1].rows, MetaFile(d)[1].cols)
       ELSE <<ImageSize(d)>>

\* a faulty variant: a rate that was set is replaced by the sheet's default
RateAfterImage_Overwritten(rate, d) ==
    IF MetaFile(d) # None
       THEN Some(MetaFile(d)[1].rows * MetaFile(d)[1].cols)
       ELSE rate

\* a faulty variant: the rate is never given a default
RateAfterImage_LeftNone(rate, d) == rate

\* the animation rate _set_image leaves: a sheet gives a sprite that has no
\* rate (None) the rate rows * cols
RateAfterImage(rate, d) ==
    IF MetaFile(d) # None /\ rate = None
       THEN Some(MetaFile(d)[1].rows * MetaFile(d)[1].cols)
       ELSE rate

\* a faulty variant: the rate is taken as cells per millisecond
TimePerCell_PerMs(rate) ==
    IF rate = None THEN None
    ELSE IF rate[1] > 0 THEN Some(Ms(1) \div rate[1])
    ELSE Some(-1)

\* _time_per_cell for a rate that is None or >= 0:
\* None for None, 1000 / rate for a rate > 0, -1 for the rate 0
TimePerCell(rate) ==
    IF rate = None THEN None
    ELSE IF rate[1] > 0 THEN Some(Ms(1000) \div rate[1])
    ELSE Some(-1)

\* _set_image_animation_rate on a rate that is None or >= 0
WithRate(s, rate) ==
    [s EXCEPT !.image_animation_rate = rate,
              !.time_per_cell = TimePerCell(rate),
              !.time_current_cell_visible = 0]

\* _current_cell
CurrentCell(s) == s.cells[s.current_cell_index + 1]

\* _transform_cell: the size pygame gives the buffer after scale (in quarters:
\* 4 is the scale 1.0), flip and rotation (0 or 90 degrees), and the
\* parameters the buffer was made with
TransformCell(s, cell) ==
    LET scaled == IF s.scale # 4
                     THEN [w |-> ToInt(cell.w * s.scale, 4),
                           h |-> ToInt(cell.h * s.scale, 4)]
                     ELSE cell
        rotated == IF s.angle # 0
                      THEN [w |-> scaled.h, h |-> scaled.w]
                      ELSE scaled
    IN  [w |-> rotated.w, h |-> rotated.h, scale |-> s.scale,
         flip_x |-> s.flip_x, flip_y |-> s.flip_y, angle |-> s.angle]

\* the sprite after a read of _current_transformed_cell: the entry of the
\* current cell is computed and cached if it was None
Cached(s) ==
    LET k == s.current_cell_index + 1
    IN  IF s.transformed_cells[k] = None
           THEN [s EXCEPT !.transformed_cells[k] =
                             Some(TransformCell(s, s.cells[k]))]
           ELSE s

\* _current_transformed_cell, the value read
CurrentTransformedCell(s) ==
    Cached(s).transformed_cells[s.current_cell_index + 1][1]

\* a faulty variant: only the first entry is cleared
Invalidate_FirstOnly(cells) ==
    [i \in 1..Len(cells) |-> IF i = 1 THEN None ELSE cells[i]]

\* _invalidate_transformed_cells
Invalidate(cells) == [i \in 1..Len(cells) |-> None]

\* width, height
Width(s) == CurrentTransformedCell(s).w

Height(s) == CurrentTransformedCell(s).h

\* center, read: positions are held in half pixels, so that
\* x + width / 2 is the whole number 2x + width
Center(s) == [x |-> s.x + Width(s), y |-> s.y + Height(s)]

\* a faulty variant: the position is left where it was
SetCenter_TopLeftKept(s, c) == Cached(s)

\* center, assigned: x = center_x - width / 2, y = center_y - height / 2
SetCenter(s, c) ==
    [Cached(s) EXCEPT !.x = c.x - Width(s), !.y = c.y - Height(s)]

----------------------------------------------------------------------------
(* Sprite: the setters and the animation *)

\* a faulty variant: the test for the same image always fails
SameImage_Never(s, d) == FALSE

\* self.image == image_descriptor
SameImage(s, d) == s.image_descriptor = d

\* the body of _set_image after the test for the same image, without the
\* two lines that keep the center
LoadImage(s, d) ==
    [s EXCEPT !.image_animation_rate = RateAfterImage(@, d),
              !.time_per_cell =
                  TimePerCell(RateAfterImage(s.image_animation_rate, d)),
              !.image_descriptor = d,
              !.current_cell_index = 0,
              !.cells = LoadCells(d),
              !.transformed_cells = [i \in 1..Len(LoadCells(d)) |-> None],
              !.time_current_cell_visible = 0]

\* sprite.image = d
SetImage(s, d) ==
    IF SameImage(s, d) THEN s ELSE SetCenter(LoadImage(s, d), Center(s))

\* reset_image(): _set_image(self.image, True)
ResetImage(s) == LoadImage(s, s.image_descriptor)

\* Sprite(d, x, y): scale 1.0, angle 0, no flip; the construction ends by
\* reading the width and height of the transformed cell
NewSprite(d, x, y) ==
    Cached(LoadImage([image_descriptor |-> d,
                      image_animation_rate |-> None,
                      time_per_cell |-> None,
                      current_cell_index |-> 0,
                      cells |-> <<>>,
                      transformed_cells |-> <<>>,
                      time_current_cell_visible |-> 0,
                      scale |-> 4, angle |-> 0,
                      flip_x |-> FALSE, flip_y |-> FALSE,
                      x |-> 2 * x, y |-> 2 * y], d))

\* a faulty variant: only the width is tested
ScaleTooSmall_WidthOnly(cell, scale) == ToInt(cell.w * scale, 4) < 1

\* the two tests of _set_scale: int(width * scale) < 1, int(height * scale) < 1
ScaleTooSmall(cell, scale) ==
    ToInt(cell.w * scale, 4) < 1 \/ ToInt(cell.h * scale, 4) < 1

\* _set_scale past its tests
SetScale(s, scale) ==
    SetCenter([s EXCEPT !.scale = scale,
                        !.transformed_cells = Invalidate(@)], Center(s))

\* _set_flip_x, _set_flip_y
SetFlipX(s, flipped) ==
    IF s.flip_x = flipped THEN s
    ELSE [s EXCEPT !.flip_x = flipped, !.transformed_cells = Invalidate(@)]

SetFlipY(s, flipped) ==
    IF s.flip_y = flipped THEN s
    ELSE [s EXCEPT !.flip_y = flipped, !.transformed_cells = Invalidate(@)]

\* _set_angle
SetAngle(s, angle) ==
    SetCenter([s EXCEPT !.angle = angle,
                        !.transformed_cells = Invalidate(@)], Center(s))

\* _draw of a visible sprite: the blit reads _current_transformed_cell
Draw(s) == Cached(s)

\* a faulty variant: the index moves on by two cells
NextCell_ByTwo(index, n) == (index + 2) % n

\* the rate None: the index moves on by one cell and wraps at the end
NextCell(index, n) == IF index + 1 = n THEN 0 ELSE index + 1

\* a faulty variant: the index is not taken modulo the number of cells
Advance_NoWrap(s, t) ==
    [s EXCEPT !.time_current_cell_visible = t % s.time_per_cell[1],
              !.current_cell_index = @ + t \div s.time_per_cell[1]]

\* a faulty variant: the time left over is dropped
Advance_NoRemainder(s, t) ==
    [s EXCEPT !.time_current_cell_visible = 0,
              !.current_cell_index =
                  (@ + t \div s.time_per_cell[1]) % Len(s.cells)]

\* a rate > 0 and an accumulated time t >= time_per_cell: divmod, then the
\* index moves on modulo the number of cells
Advance(s, t) ==
    [s EXCEPT !.time_current_cell_visible = t % s.time_per_cell[1],
              !.current_cell_index =
                  (@ + t \div s.time_per_cell[1]) % Len(s.cells)]

\* _update(delta_time), delta_time in milliseconds; the sprite's speed is
\* (0, 0), so RectangularObject._update leaves x and y
Update(s, delta_time) ==
    LET t == s.time_current_cell_visible + Ms(delta_time)
        u == [s EXCEPT !.time_current_cell_visible = t]
    IN  IF s.time_per_cell = Some(-1) THEN u
        ELSE IF s.time_per_cell = None
           THEN IF Len(s.cells) > 1
                   THEN [u EXCEPT !.current_cell_index = NextCell(@, Len(s.cells))]
                   ELSE u
        ELSE IF t >= s.time_per_cell[1] THEN Advance(s, t)
        ELSE u

\* what `last' holds after an operation of the sprite
Call(name, arg, v, ret) == [op |-> name, arg |-> arg, ret |-> ret, val |-> v]

\* the value of anim_run once something other than a frame was done
Interrupted == <<0>>

\* the frame times and the values assigned in the sprite model
FrameTimes == {100, 600}

Rates == {None, Some(0), Some(2), Some(-1)}

Scales == {1, 2, 4}

Angles == {0, 90}

set_image(d) ==
    /\ sprite' = SetImage(sprite, d)
    /\ anim_run' = (IF sprite' = sprite THEN anim_run ELSE <<>>)
    /\ last' = Call("set_image", d, 0, "None")

reset_image ==
    /\ sprite' = ResetImage(sprite)
    /\ anim_run' = <<>>
    /\ last' = Call("reset_image", "-", 0, "None")

set_image_animation_rate(rate) ==
    IF rate # None /\ rate[1] < 0
       THEN /\ last' = Call("set_image_animation_rate", "number", rate[1],
                            "ValueError")
            /\ UNCHANGED <<sprite, anim_run>>
       ELSE /\ sprite' = WithRate(sprite, rate)
            /\ anim_run' = Interrupted
            /\ last' = Call("set_image_animation_rate",
                            IF rate = None THEN "None" ELSE "number",
                            IF rate = None THEN 0 ELSE rate[1], "None")

set_scale(scale) ==
    IF ScaleTooSmall(CurrentCell(sprite), scale)
       THEN /\ last' = Call("set_scale", "-", scale, "ValueError")
            /\ UNCHANGED <<sprite, anim_run>>
       ELSE /\ sprite' = SetScale(sprite, scale)
            /\ anim_run' = Interrupted
            /\ last' = Call("set_scale", "-", scale, "None")

set_flip_x(flipped) ==
    /\ sprite' = SetFlipX(sprite, flipped)
    /\ anim_run' = Interrupted
    /\ last' = Call("set_flip_x", "-", 0, "None")

set_flip_y(flipped) ==
    /\ sprite' = SetFlipY(sprite, flipped)
    /\ anim_run' = Interrupted
    /\ last' = Call("set_flip_y", "-", 0, "None")

set_angle(angle) ==
    /\ sprite' = SetAngle(sprite, angle)
    /\ anim_run' = Interrupted
    /\ last' = Call("set_angle", "-", angle, "None")

\* one frame of finish_frame() on the sprite, which is in the draw list,
\* visible and not destroyed: _draw(), then _update(delta_time)
frame_step(delta_time) ==
    /\ Update(Draw(sprite), delta_time).time_current_cell_visible
          <= Ms(100 * MaxCellTime)
    /\ sprite' = Update(Draw(sprite), delta_time)
    /\ anim_run' = (IF anim_run # Interrupted /\ Len(anim_run) < MaxRun
                       THEN Append(anim_run, delta_time)
                       ELSE Interrupted)
    /\ last' = Call("frame_step", "-", delta_time, "None")

\* the sprite of the other specifications, which never touch it
SpriteIdle ==
    /\ sprite = NewSprite("still.png", 0, 0)
    /\ anim_run = <<>>

----------------------------------------------------------------------------
(* The chooser: load_class and get_next *)

TAB == "\t"

\* the characters of the class files
FileChars == {"a", ".", SP, TAB, NL}

\* the characters of the class files that str.isspace() takes for white space
Whitespace == {SP, TAB, NL}

\* the characters str.strip() is given
StripChars ==
    {".", ",", "-", ";", "!", "@", "#", "$", "%", "^", "&", "*", SP}

\* the class files: every text of at most MaxFileLen characters
Files == UNION {[1..n -> FileChars] : n \in 0..MaxFileLen}

\* the index of the first newline of a text that has one
FirstNewline(text) ==
    CHOOSE k \in 1..Len(text) :
        text[k] = NL /\ \A j \in 1..(k - 1) : text[j] # NL

\* file.readlines(): the lines of the text, each with its newline
RECURSIVE ReadLines(_)
ReadLines(text) ==
    IF text = <<>> THEN <<>>
    ELSE IF \A k \in 1..Len(text) : text[k] # NL THEN <<text>>
    ELSE LET k == FirstNewline(text)
         IN  <<SubSeq(text, 1, k)>> \o ReadLines(SubSeq(text, k + 1, Len(text)))

\* str.isspace(): not empty, and white space only
IsSpace(s) == s # <<>> /\ \A i \in 1..Len(s) : s[i] \in Whitespace

\* a faulty variant: only the front of the string is stripped
Strip_FrontOnly(s, chars) ==
    LET keep == {i \in 1..Len(s) : s[i] \notin chars}
    IN  IF keep = {} THEN <<>>
        ELSE SubSeq(s, CHOOSE i \in keep : \A j \in keep : i <= j, Len(s))

\* str.strip(chars): drops the characters of chars from both ends
Strip(s, chars) ==
    LET keep == {i \in 1..Len(s) : s[i] \notin chars}
    IN  IF keep = {} THEN <<>>
        ELSE SubSeq(s, CHOOSE i \in keep : \A j \in keep : i <= j,
                       CHOOSE i \in keep : \A j \in keep : i >= j)

\* the loop of load_class: a white-space line is deleted, any other line is
\* stripped
LoadClass(text) ==
    LET kept == SelectSeq(ReadLines(text), LAMBDA line : ~IsSpace(line))
    IN  [i \in 1..Len(kept) |-> Strip(kept[i], StripChars)]

\* a faulty variant: the chosen item stays in the list
AfterPick_Kept(lst, item) == lst

\* choices_list.remove(choice)
AfterPick(lst, item) == Remove(lst, item)

\* choices = load_class(files[chosen_period])
load_class ==
    /\ choices' = LoadClass(file)
    /\ loaded' = choices'
    /\ picked' = <<>>
    /\ last' = Op("load_class", "-", "list")
    /\ UNCHANGED <<file, choice>>

\* student = get_next(choices); random.choice takes any position k
get_next ==
    \/ /\ choices = <<>>
       /\ choice' = None
       /\ last' = Op("get_next", "-", "None")
       /\ UNCHANGED <<file, choices, loaded, picked>>
    \/ \E k \in 1..Len(choices) :
          /\ choice' = Some(choices[k])
          /\ choices' = AfterPick(choices, choices[k])
          /\ picked' = Append(picked, choices[k])
          /\ last' = Op("get_next", "-", "item")
          /\ UNCHANGED <<file, loaded>>

\* the concatenation of the strings of a list
RECURSIVE Concat(_)
Concat(lst) == IF lst = <<>> THEN <<>> ELSE Head(lst) \o Concat(Tail(lst))

\* print(*choices, sep="", file=file) into the class file opened with "w"
save_class ==
    /\ file' = Concat(choices) \o <<NL>>
    /\ last' = Op("save_class", "-", "None")
    /\ UNCHANGED <<choices, choice, loaded, picked>>

\* choices = [] at the start of the program
PickerIdle ==
    /\ file = <<>>
    /\ choices = <<>>
    /\ choice = None
    /\ loaded = <<>>
    /\ picked = <<>>

----------------------------------------------------------------------------
(* The scene specification: three objects are added, hidden, destroyed,  *)
(* moved between layers and drawn; no input arrives, so every frame      *)
(* drains an empty queue (input is the frame specification's)            *)

\* the state right after the Sounds were made, before any window exists
SoundIdle ==
    /\ snd_paused = [s \in Sounds |-> FALSE]
    /\ pause_called = [s \in Sounds |-> FALSE]
    /\ refused = {}

Init ==
    /\ draw_list = <<>>
    /\ destroyed = {}
    /\ visible = Objects
    /\ events = <<>>
    /\ queue = <<>>
    /\ is_running = TRUE
    /\ frame_log = <<>>
    /\ active_window = TRUE
    /\ channels = [i \in 1..MAX_AUDIO_CHANNELS |-> Free]
    /\ SoundIdle
    /\ LabelIdle
    /\ SpriteIdle
    /\ PickerIdle
    /\ last = Op("init", "-", "None")

Next ==
    \/ \E x \in Objects \cup {NotDrawable} :
          add_object(x) /\ UNCHANGED <<queue, sound_vars, label_vars, sprite_vars, picker_vars>>
    \/ \E o \in Objects : destroy(o) /\ UNCHANGED <<queue, sound_vars, label_vars, sprite_vars, picker_vars>>
    \/ \E o \in Objects, b \in BOOLEAN :
          set_visible(o, b) /\ UNCHANGED <<queue, sound_vars, label_vars, sprite_vars, picker_vars>>
    \/ drain_frame /\ UNCHANGED <<sound_vars, label_vars, sprite_vars, picker_vars>>
    \/ \E o \in Objects : move_forward(o) /\ UNCHANGED <<queue, sound_vars, label_vars, sprite_vars, picker_vars>>
    \/ \E o \in Objects : move_to_front(o) /\ UNCHANGED <<queue, sound_vars, label_vars, sprite_vars, picker_vars>>
    \/ \E o \in Objects : move_backward(o) /\ UNCHANGED <<queue, sound_vars, label_vars, sprite_vars, picker_vars>>
    \/ \E o \in Objects : move_to_back(o) /\ UNCHANGED <<queue, sound_vars, label_vars, sprite_vars, picker_vars>>
    \/ \E o \in Objects : get_layer(o) /\ UNCHANGED <<queue, sound_vars, label_vars, sprite_vars, picker_vars>>
    \/ \E o \in Objects, i \in (-1)..MaxDrawList :
          set_layer(o, i) /\ UNCHANGED <<queue, sound_vars, label_vars, sprite_vars, picker_vars>>

Spec == Init /\ [][Next]_vars

----------------------------------------------------------------------------
(* The layer specification: objects are added to the scene and moved      *)
(* between its layers; every draw list of the scene is one of its states  *)

LayerNext ==
    \/ \E x \in Objects \cup {NotDrawable} :
          add_object(x) /\ UNCHANGED <<queue, sound_vars, label_vars, sprite_vars, picker_vars>>
    \/ \E o \in Objects : move_forward(o) /\ UNCHANGED <<queue, sound_vars, label_vars, sprite_vars, picker_vars>>
    \/ \E o \in Objects : move_to_front(o) /\ UNCHANGED <<queue, sound_vars, label_vars, sprite_vars, picker_vars>>
    \/ \E o \in Objects : move_backward(o) /\ UNCHANGED <<queue, sound_vars, label_vars, sprite_vars, picker_vars>>
    \/ \E o \in Objects : move_to_back(o) /\ UNCHANGED <<queue, sound_vars, label_vars, sprite_vars, picker_vars>>
    \/ \E o \in Objects : get_layer(o) /\ UNCHANGED <<queue, sound_vars, label_vars, sprite_vars, picker_vars>>
    \/ \E o \in Objects, i \in (-1)..MaxDrawList :
          set_layer(o, i) /\ UNCHANGED <<queue, sound_vars, label_vars, sprite_vars, picker_vars>>

LayerSpec == Init /\ [][LayerNext]_vars

----------------------------------------------------------------------------
(* The frame specification: a scene of one object, the backend's event   *)
(* queue filling between frames, frames that drain it, and the queries   *)

\* the object of the frame specification
FrameObjects == {"A"}

FrameNext ==
    \/ \E x \in FrameObjects \cup {NotDrawable} :
          add_object(x) /\ UNCHANGED <<queue, sound_vars, label_vars, sprite_vars, picker_vars>>
    \/ \E o \in FrameObjects : destroy(o) /\ UNCHANGED <<queue, sound_vars, label_vars, sprite_vars, picker_vars>>
    \/ \E o \in FrameObjects, b \in BOOLEAN :
          set_visible(o, b) /\ UNCHANGED <<queue, sound_vars, label_vars, sprite_vars, picker_vars>>
    \/ \E o \in FrameObjects : move_forward(o) /\ UNCHANGED <<queue, sound_vars, label_vars, sprite_vars, picker_vars>>
    \/ \E o \in FrameObjects : move_to_front(o) /\ UNCHANGED <<queue, sound_vars, label_vars, sprite_vars, picker_vars>>
    \/ \E o \in FrameObjects : move_backward(o) /\ UNCHANGED <<queue, sound_vars, label_vars, sprite_vars, picker_vars>>
    \/ \E o \in FrameObjects : move_to_back(o) /\ UNCHANGED <<queue, sound_vars, label_vars, sprite_vars, picker_vars>>
    \/ \E o \in FrameObjects : get_layer(o) /\ UNCHANGED <<queue, sound_vars, label_vars, sprite_vars, picker_vars>>
    \/ \E o \in FrameObjects, i \in (-1)..MaxDrawList :
          set_layer(o, i) /\ UNCHANGED <<queue, sound_vars, label_vars, sprite_vars, picker_vars>>
    \/ \E batch \in EventBatches :
          input(batch) /\ UNCHANGED <<sound_vars, label_vars, sprite_vars, picker_vars>>
    \/ drain_frame /\ UNCHANGED <<sound_vars, label_vars, sprite_vars, picker_vars>>
    \/ \E k \in Keys \cup {NoKey} :
          was_key_pressed(k) /\ UNCHANGED <<sound_vars, label_vars, sprite_vars, picker_vars>>
    \/ \E k \in Keys \cup {NoKey} :
          was_key_released(k) /\ UNCHANGED <<sound_vars, label_vars, sprite_vars, picker_vars>>
    \/ was_mouse_pressed /\ UNCHANGED <<sound_vars, label_vars, sprite_vars, picker_vars>>
    \/ was_mouse_released /\ UNCHANGED <<sound_vars, label_vars, sprite_vars, picker_vars>>

FrameSpec == Init /\ [][FrameNext]_vars

----------------------------------------------------------------------------
(* The sound specification: the Sounds exist, no window yet, and the mixer *)
(* holds between MAX_AUDIO_CHANNELS - MaxBelowCeiling and                  *)
(* MAX_AUDIO_CHANNELS free channels                                        *)

SoundInit ==
    /\ draw_list = <<>>
    /\ destroyed = {}
    /\ visible = Objects
    /\ events = <<>>
    /\ queue = <<>>
    /\ is_running = TRUE
    /\ frame_log = <<>>
    /\ active_window = FALSE
    /\ \E n \in 0..MaxBelowCeiling :
          /\ n <= MAX_AUDIO_CHANNELS
          /\ channels = [i \in 1..(MAX_AUDIO_CHANNELS - n) |-> Free]
    /\ SoundIdle
    /\ LabelIdle
    /\ SpriteIdle
    /\ PickerIdle
    /\ last = Op("init", "-", "None")

SoundNext ==
    \/ create_window /\ UNCHANGED <<scene_vars, label_vars, sprite_vars, picker_vars>>
    \/ \E s \in Sounds : play(s) /\ UNCHANGED <<scene_vars, label_vars, sprite_vars, picker_vars>>
    \/ \E s \in Sounds : stop(s) /\ UNCHANGED <<scene_vars, label_vars, sprite_vars, picker_vars>>
    \/ \E s \in Sounds : pause(s) /\ UNCHANGED <<scene_vars, label_vars, sprite_vars, picker_vars>>
    \/ \E s \in Sounds : unpause(s) /\ UNCHANGED <<scene_vars, label_vars, sprite_vars, picker_vars>>
    \/ \E i \in 1..MAX_AUDIO_CHANNELS :
          channel_done(i) /\ UNCHANGED <<scene_vars, label_vars, sprite_vars, picker_vars>>

SoundSpec == SoundInit /\ [][SoundNext]_vars

----------------------------------------------------------------------------
(* The label specification: one TextLabel, made with the default text *)

LabelInit ==
    /\ draw_list = <<>>
    /\ destroyed = {}
    /\ visible = Objects
    /\ events = <<>>
    /\ queue = <<>>
    /\ is_running = TRUE
    /\ frame_log = <<>>
    /\ active_window = TRUE
    /\ channels = [i \in 1..MAX_AUDIO_CHANNELS |-> Free]
    /\ SoundIdle
    /\ \E f \in Fonts, w \in 0..MaxWidth : NewLabel(f, 1, w)
    /\ SpriteIdle
    /\ PickerIdle
    /\ last = Op("init", "-", "None")

LabelNext ==
    \/ \E c \in Alphabet : set_text(c) /\ UNCHANGED <<scene_vars, sound_vars, sprite_vars, picker_vars>>
    \/ clear_text /\ UNCHANGED <<scene_vars, sound_vars, sprite_vars, picker_vars>>
    \/ \E w \in (-1)..MaxWidth : set_width(w) /\ UNCHANGED <<scene_vars, sound_vars, sprite_vars, picker_vars>>

LabelSpec == LabelInit /\ [][LabelNext]_vars

----------------------------------------------------------------------------
(* The metrics specification: one TextLabel whose font, font size and line
   spacing change as well as its text and width; short texts *)

MaxMetricsText == 3

MetricsAlphabet == {"a", SP, NL}

MetricsWidths == {0, 3, MaxWidth}

\* the font sizes, as multiples of the size of the advances of Adv
FontSizes == {1, 2}

\* the line spacings, in tenths: 1.0, 1.2, 1.5
LineSpacings == {10, 12, 15}

MetricsInit ==
    /\ draw_list = <<>>
    /\ destroyed = {}
    /\ visible = Objects
    /\ events = <<>>
    /\ queue = <<>>
    /\ is_running = TRUE
    /\ frame_log = <<>>
    /\ active_window = TRUE
    /\ channels = [i \in 1..MAX_AUDIO_CHANNELS |-> Free]
    /\ SoundIdle
    /\ \E f \in Fonts, size \in FontSizes, w \in MetricsWidths : NewLabel(f, size, w)
    /\ SpriteIdle
    /\ PickerIdle
    /\ last = Op("init", "-", "None")

MetricsNext ==
    \/ \E c \in MetricsAlphabet : Len(lbl_text) < MaxMetricsText /\ set_text(c) /\ UNCHANGED <<scene_vars, sound_vars, sprite_vars, picker_vars>>
    \/ clear_text /\ UNCHANGED <<scene_vars, sound_vars, sprite_vars, picker_vars>>
    \/ \E w \in MetricsWidths : set_width(w) /\ UNCHANGED <<scene_vars, sound_vars, sprite_vars, picker_vars>>
    \/ \E f \in Fonts : set_font(f) /\ UNCHANGED <<scene_vars, sound_vars, sprite_vars, picker_vars>>
    \/ \E size \in FontSizes : set_font_size(size) /\ UNCHANGED <<scene_vars, sound_vars, sprite_vars, picker_vars>>
    \/ \E spacing \in LineSpacings : set_line_spacing(spacing) /\ UNCHANGED <<scene_vars, sound_vars, sprite_vars, picker_vars>>

MetricsSpec == MetricsInit /\ [][MetricsNext]_vars

----------------------------------------------------------------------------
(* The sprite specification: one Sprite, made with the default scale *)

SpriteInit ==
    /\ draw_list = <<>>
    /\ destroyed = {}
    /\ visible = Objects
    /\ events = <<>>
    /\ queue = <<>>
    /\ is_running = TRUE
    /\ frame_log = <<>>
    /\ active_window = TRUE
    /\ channels = [i \in 1..MAX_AUDIO_CHANNELS |-> Free]
    /\ SoundIdle
    /\ LabelIdle
    /\ \E d \in Images : sprite = NewSprite(d, 1, 3)
    /\ anim_run = <<>>
    /\ PickerIdle
    /\ last = Op("init", "-", "None")

SpriteNext ==
    \/ \E d \in Images :
          set_image(d) /\ UNCHANGED <<scene_vars, sound_vars, label_vars, picker_vars>>
    \/ reset_image /\ UNCHANGED <<scene_vars, sound_vars, label_vars, picker_vars>>
    \/ \E rate \in Rates :
          set_image_animation_rate(rate)
          /\ UNCHANGED <<scene_vars, sound_vars, label_vars, picker_vars>>
    \/ \E scale \in Scales :
          set_scale(scale) /\ UNCHANGED <<scene_vars, sound_vars, label_vars, picker_vars>>
    \/ \E flipped \in BOOLEAN :
          set_flip_x(flipped) /\ UNCHANGED <<scene_vars, sound_vars, label_vars, picker_vars>>
    \/ \E flipped \in BOOLEAN :
          set_flip_y(flipped) /\ UNCHANGED <<scene_vars, sound_vars, label_vars, picker_vars>>
    \/ \E angle \in Angles :
          set_angle(angle) /\ UNCHANGED <<scene_vars, sound_vars, label_vars, picker_vars>>
    \/ \E delta_time \in FrameTimes :
          frame_step(delta_time)
          /\ UNCHANGED <<scene_vars, sound_vars, label_vars, picker_vars>>

SpriteSpec == SpriteInit /\ [][SpriteNext]_vars

----------------------------------------------------------------------------
(* The chooser specification: class files are loaded and names drawn *)

PickerInit ==
    /\ draw_list = <<>>
    /\ destroyed = {}
    /\ visible = Objects
    /\ events = <<>>
    /\ queue = <<>>
    /\ is_running = TRUE
    /\ frame_log = <<>>
    /\ active_window = TRUE
    /\ channels = [i \in 1..MAX_AUDIO_CHANNELS |-> Free]
    /\ SoundIdle
    /\ LabelIdle
    /\ SpriteIdle
    /\ file \in Files
    /\ choices = <<>>
    /\ choice = None
    /\ loaded = <<>>
    /\ picked = <<>>
    /\ last = Op("init", "-", "None")

PickerNext ==
    \/ load_class /\ UNCHANGED <<scene_vars, sound_vars, label_vars, sprite_vars>>
    \/ get_next /\ UNCHANGED <<scene_vars, sound_vars, label_vars, sprite_vars>>
    \/ save_class /\ UNCHANGED <<scene_vars, sound_vars, label_vars, sprite_vars>>

PickerSpec == PickerInit /\ [][PickerNext]_vars

----------------------------------------------------------------------------
(* Reading the frame log *)

LogIdx == 1..Len(frame_log)

HasEntry(kind, o) == \E i \in LogIdx : frame_log[i] = <<kind, o>>

FrameDone == last.op = "finish_frame"

\* the objects the pass updated, in order
UpdatedObjs ==
    LET ups == SelectSeq(frame_log, LAMBDA e : e[1] = "update")
    IN  [i \in 1..Len(ups) |-> ups[i][2]]

\* every entry of the draw/update pass comes before the flip, every removal
\* between the flip and the capture
PassThenReapThenCapture ==
    \E f, c \in LogIdx :
        /\ frame_log[f] = <<"flip", "-">>
        /\ frame_log[c] = <<"capture", "-">>
        /\ f < c
        /\ \A i \in LogIdx :
              /\ frame_log[i][1] \in {"draw", "blit", "update"} => i < f
              /\ frame_log[i][1] = "remove" => (f < i /\ i < c)

----------------------------------------------------------------------------
(* Claims on the frame loop *)

\* C1: an object on which destroy() was called and that is in the draw list
\* stays in the draw list through every operation other than finish_frame();
\* the next finish_frame() removes it, after its draw/update pass and before
\* it captures the input events, so it is gone when that call returns.
C1_DestroyReapedByNextFrame ==
    [][ /\ \A o \in Objects :
             (o \in destroyed /\ InList(o, draw_list)
                /\ last'.op # "finish_frame")
             => InList(o, draw_list')
        /\ last'.op = "finish_frame" =>
             /\ \A o \in destroyed : ~InList(o, draw_list')
             /\ \A o \in destroyed :
                   InList(o, draw_list) =>
                      \E i \in 1..Len(frame_log') : frame_log'[i] = <<"remove", o>>
             /\ PassThenReapThenCapture'
      ]_vars

C1_Witness ==
    /\ FrameDone
    /\ \E o \in destroyed : HasEntry("remove", o) /\ ~InList(o, draw_list)
    /\ draw_list # <<>>

\* C2 (as claimed): a visible object destroyed before finish_frame() is still
\* drawn by that finish_frame() call.
C2_DestroyedStillDrawn ==
    FrameDone =>
        \A o \in Objects :
            (o \in visible /\ HasEntry("remove", o)) => HasEntry("blit", o)

\* C2 (amended): an object destroyed before finish_frame() is not drawn by
\* that call, visible or not; it is still updated, and only after the
\* draw/update pass is it filtered out of the draw list.
C2_DestroyedSkippedThenReaped ==
    FrameDone =>
        /\ \A o \in Objects :
              HasEntry("remove", o) =>
                 /\ o \in destroyed
                 /\ ~HasEntry("draw", o)
                 /\ ~HasEntry("blit", o)
                 /\ HasEntry("update", o)
                 /\ ~InList(o, draw_list)
        /\ \A o \in Objects :
              (HasEntry("update", o) /\ o \in destroyed) => HasEntry("remove", o)
        /\ PassThenReapThenCapture

C2_Witness ==
    /\ FrameDone
    /\ \E o \in visible : HasEntry("remove", o) /\ HasEntry("update", o)

\* C3 (as claimed): in one finish_frame() call no object is drawn after
\* another object was updated.
C3_AllDrawsBeforeUpdates ==
    FrameDone =>
        \A i, j \in LogIdx :
            (i < j /\ frame_log[i][1] = "update") => frame_log[j][1] # "draw"

\* C3 (amended): finish_frame() walks the draw list once, back to front; each
\* object that is not destroyed is drawn immediately before its own update,
\* so its draw comes after the update of every object behind it.
C3_DrawThenUpdatePerObject ==
    FrameDone =>
        /\ \A i \in LogIdx :
              frame_log[i][1] = "draw" =>
                 LET o == frame_log[i][2]
                     k == IF o \in visible THEN i + 2 ELSE i + 1
                 IN  /\ k \in LogIdx
                     /\ frame_log[k] = <<"update", o>>
                     /\ o \in visible => frame_log[i + 1] = <<"blit", o>>
        /\ \A i \in LogIdx :
              (frame_log[i][1] = "update" /\ frame_log[i][2] \notin destroyed)
              => /\ i > 1
                 /\ frame_log[i - 1][1] \in {"draw", "blit"}
                 /\ frame_log[i - 1][2] = frame_log[i][2]
        /\ SelectSeq(UpdatedObjs, LAMBDA o : o \notin destroyed) = draw_list

C3_Witness ==
    /\ FrameDone
    /\ \E i, j \in LogIdx :
          /\ i < j
          /\ frame_log[i][1] = "update"
          /\ frame_log[j][1] = "draw"
          /\ frame_log[i][2] # frame_log[j][2]

----------------------------------------------------------------------------
(* Claims on the audio channel manager *)

\* the step is a call of play() on s
PlayStep(s) == last'.op = "play" /\ last'.arg = s

\* C4 (as claimed): whenever a unique Sound has at least one active instance,
\* play() returns False and the number of its active instances is unchanged.
C4_UniqueBusyReturnsFalse ==
    [][ \A s \in Sounds :
           (Unique(s) /\ NumCopies(s, channels) >= 1 /\ PlayStep(s))
           => /\ last'.ret = "False"
              /\ NumCopies(s, channels') = NumCopies(s, channels)
      ]_vars

\* C4 (amended): when a unique Sound has at least one active instance, play()
\* starts no new instance: it returns False when the sound is not paused and
\* raises the play-while-paused error when it is; so a Sound that is unique
\* since creation never has more than one active instance.
C4_UniqueNeverDoubled ==
    [][ \A s \in Sounds :
           Unique(s) =>
              /\ NumCopies(s, channels') <= 1
              /\ (NumCopies(s, channels) >= 1 /\ PlayStep(s))
                 => /\ NumCopies(s, channels') = NumCopies(s, channels)
                    /\ last'.ret = (IF pause_called[s] THEN "PlayWhilePaused"
                                    ELSE "False")
      ]_vars

C4_Witness ==
    \E s \in Sounds :
        /\ Unique(s)
        /\ last = Op("play", s, "False")
        /\ NumCopies(s, channels) = 1
        /\ ~snd_paused[s]

C6_NonUniquePlaysUpToCeiling ==
    [][ \A s \in Sounds :
           /\ NumCopies(s, channels') <= MAX_AUDIO_CHANNELS
           /\ (~Unique(s) /\ ~snd_paused[s] /\ active_window /\ PlayStep(s))
              => IF NumBusy(channels) < MAX_AUDIO_CHANNELS
                    THEN /\ last'.ret = "True"
                         /\ NumCopies(s, channels') = NumCopies(s, channels) + 1
                         /\ NumBusy(channels') = NumBusy(channels) + 1
                         /\ \A t \in Sounds \ {s} :
                               NumCopies(t, channels') = NumCopies(t, channels)
                    ELSE /\ last'.ret = "False"
                         /\ channels' = channels
      ]_vars

C6_Witness ==
    \E s \in Sounds :
        /\ ~Unique(s)
        /\ last = Op("play", s, "False")
        /\ NumCopies(s, channels) = MAX_AUDIO_CHANNELS

\* C7: play() on a Sound on which pause() was called with no later unpause()
\* or stop() raises the play-while-paused error and starts no instance; once
\* unpause() or stop() was called, play() no longer raises it.
C7_PlayWhilePausedRaises ==
    [][ \A s \in Sounds :
           PlayStep(s) =>
              IF pause_called[s]
                 THEN /\ last'.ret = "PlayWhilePaused"
                      /\ channels' = channels
                 ELSE last'.ret # "PlayWhilePaused"
      ]_vars

C7_Witness ==
    \E s \in Sounds :
        /\ s \in refused
        /\ last = Op("play", s, "True")
        /\ NumCopies(s, channels) >= 1

\* C8: pause(), unpause() and stop() on a Sound act on every channel that
\* Sound is on and leave every other channel as it was.
C8_PauseStopReachAllCopies ==
    [][ \A s \in Sounds :
           (last'.op \in {"pause", "unpause", "stop"} /\ last'.arg = s)
           => /\ Len(channels') = Len(channels)
              /\ \A i \in 1..Len(channels) :
                    IF channels[i].snd = s
                       THEN channels'[i] =
                               (IF last'.op = "stop" THEN Free
                                ELSE [snd |-> s,
                                      paused |-> (last'.op = "pause")])
                       ELSE channels'[i] = channels[i]
      ]_vars

C8_Witness ==
    /\ last = Op("pause", "effect", "None")
    /\ NumCopies("effect", channels) >= 2
    /\ \A i \in 1..Len(channels) :
          channels[i].snd = "effect" => channels[i].paused
    /\ \E i \in 1..Len(channels) :
          channels[i].snd = "drums" /\ ~channels[i].paused

----------------------------------------------------------------------------
(* Claims on the text layout *)

\* the words of the label's text: every paragraph split at the spaces
RECURSIVE WordsOf(_)
WordsOf(paragraphs) ==
    IF paragraphs = <<>> THEN <<>>
    ELSE Split(Head(paragraphs), SP) \o WordsOf(Tail(paragraphs))

TextWords == WordsOf(Split(lbl_text, NL))

LineWords == WordsOf(lbl_lines)

NonEmpty(seq) == SelectSeq(seq, LAMBDA x : x # <<>>)

Wide(word) == Measure(lbl_font, word) > lbl_width

AllWordsFit == \A k \in 1..Len(TextWords) : ~Wide(TextWords[k])

\* C9: when no word of the text measures wider than the wrap width, every
\* line of the label measures at most the wrap width.
C9_LinesFitWhenWordsFit ==
    AllWordsFit =>
        \A i \in 1..Len(lbl_lines) :
            Measure(lbl_font, lbl_lines[i]) <= lbl_width

\* a paragraph of words that all fit was broken into several lines
C9_Witness ==
    /\ AllWordsFit
    /\ \A i \in 1..Len(lbl_text) : lbl_text[i] # NL
    /\ Len(lbl_lines) >= 2
    /\ \A i \in 1..Len(lbl_lines) : lbl_lines[i] # <<>>
    /\ \E i \in 1..Len(lbl_lines) : Len(Split(lbl_lines[i], SP)) >= 2

\* C10: a word that measures wider than the wrap width is the whole content
\* of its line, and the lines hold the words of the text, whole and in order
\* (no word is split or lost).
C10_WideWordAlone ==
    /\ \A i \in 1..Len(lbl_lines) :
          \A k \in 1..Len(Split(lbl_lines[i], SP)) :
              Wide(Split(lbl_lines[i], SP)[k]) =>
                 lbl_lines[i] = Split(lbl_lines[i], SP)[k]
    /\ NonEmpty(LineWords) = NonEmpty(TextWords)

\* a wide word between two words that fit, each on a line of its own
C10_Witness ==
    \E i \in 1..Len(lbl_lines) :
        /\ Wide(lbl_lines[i])
        /\ \A j \in 1..Len(lbl_lines[i]) : lbl_lines[i][j] # SP
        /\ i > 1
        /\ lbl_lines[i - 1] # <<>>
        /\ ~Wide(lbl_lines[i - 1])
        /\ \A j \in 1..Len(lbl_text) : lbl_text[j] # NL

\* the lines of each paragraph wrapped on its own, one after the other
RECURSIVE WrapEach(_)
WrapEach(paragraphs) ==
    IF paragraphs = <<>> THEN <<>>
    ELSE WrapIntoLines(Head(paragraphs), lbl_font, lbl_width)
         \o WrapEach(Tail(paragraphs))

\* every word of the paragraph fits in the wrap width
WordsFit(paragraph) ==
    \A k \in 1..Len(Split(paragraph, SP)) :
        Measure(lbl_font, Split(paragraph, SP)[k]) <= lbl_width

\* each line but the last was full: with a space and the first word of the
\* line after it, it measures more than the wrap width
FullLines(lines) ==
    \A i \in 1..(Len(lines) - 1) :
        Measure(lbl_font, lines[i] \o <<SP>> \o Head(Split(lines[i + 1], SP)))
           > lbl_width

\* C11: the label's lines are its paragraphs wrapped one after the other,
\* and in a paragraph whose words all fit in the wrap width a line ends only
\* where the line, a space and the next word together measure more than
\* the width, that word starting the line after it.  The example of four
\* words, at the model's scale: "a b" measures 6 and "a b a" measures 9, so
\* at width 6 the text "a b a a" gives the lines "a b" and "a a".
C11_GreedyWrap ==
    /\ lbl_lines = WrapEach(Split(lbl_text, NL))
    /\ \A k \in 1..Len(Split(lbl_text, NL)) :
          LET paragraph == Split(lbl_text, NL)[k]
          IN  WordsFit(paragraph) =>
                 FullLines(WrapIntoLines(paragraph, lbl_font, lbl_width))
    /\ WrapIntoLines(<<"a", SP, "b", SP, "a", SP, "a">>, Font("plain", 1), 6)
          = << <<"a", SP, "b">>, <<"a", SP, "a">> >>

\* a line of two words that measures exactly the wrap width, and the next
\* word on the line after it
C11_Witness ==
    /\ AllWordsFit
    /\ \A i \in 1..Len(lbl_text) : lbl_text[i] # NL
    /\ Len(lbl_lines) = 2
    /\ Measure(lbl_font, lbl_lines[1]) = lbl_width
    /\ Len(NonEmpty(Split(lbl_lines[1], SP))) = 2
    /\ lbl_lines[2] # <<>>
    /\ lbl_width > 0

----------------------------------------------------------------------------
(* Claims on the sprite's transform *)

\* the step is an assignment to scale, angle, flip_x or flip_y that returned
TransformAssigned ==
    /\ last'.op \in {"set_scale", "set_angle", "set_flip_x", "set_flip_y"}
    /\ last'.ret = "None"

\* the parameters of _transform_cell
Params(s) == <<s.scale, s.flip_x, s.flip_y, s.angle>>

\* C12: after every accepted assignment to scale, angle, flip_x or flip_y the
\* sprite's center (center_x, center_y) is where it was before the
\* assignment.
C12_CenterKept ==
    [][ TransformAssigned => Center(sprite') = Center(sprite) ]_vars

\* a sprite scaled, flipped and turned, its top-left corner moved
C12_Witness ==
    /\ last.op = "set_angle"
    /\ sprite.angle = 90
    /\ sprite.scale = 2
    /\ sprite.flip_x
    /\ sprite.x # 2
    /\ sprite.y # 6
    /\ Width(sprite) # Height(sprite)

\* C13: assigning a scale for which int(width * scale) < 1 or
\* int(height * scale) < 1, width and height being those of the current cell
\* before any transformation, raises an error and leaves the sprite's scale,
\* its position and its transformed-cell cache (and every other field) as
\* they were.
C13_TinyScaleRejected ==
    [][ (/\ last'.op = "set_scale"
         /\ \/ ToInt(CurrentCell(sprite).w * last'.val, 4) < 1
            \/ ToInt(CurrentCell(sprite).h * last'.val, 4) < 1)
        => /\ last'.ret = "ValueError"
           /\ sprite'.scale = sprite.scale
           /\ sprite'.x = sprite.x /\ sprite'.y = sprite.y
           /\ sprite'.transformed_cells = sprite.transformed_cells
           /\ sprite' = sprite
      ]_vars

\* the scale 0.25 refused for a cell 4 wide and 2 high, whose width it would
\* leave at 1 pixel, on a sprite that was scaled and turned before
C13_Witness ==
    /\ last = Call("set_scale", "-", 1, "ValueError")
    /\ CurrentCell(sprite) = [w |-> 4, h |-> 2]
    /\ sprite.scale = 2
    /\ sprite.angle = 90
    /\ sprite.transformed_cells[1] # None

\* every cached cell is the current cell of that index as _transform_cell
\* makes it with the sprite's present scale, flips and angle
Fresh(s) ==
    /\ Len(s.transformed_cells) = Len(s.cells)
    /\ \A i \in 1..Len(s.transformed_cells) :
          s.transformed_cells[i] # None =>
             s.transformed_cells[i] = Some(TransformCell(s, s.cells[i]))

\* C14: no cached transformed cell is stale: every entry of the cache that is
\* not empty was computed with the sprite's present scale, flips and angle,
\* and an assignment that changes one of them leaves no entry of any index
\* that was computed before it (the entry of the current cell alone may be
\* filled again, with the new parameters).
C14_NoStaleCell ==
    [][ /\ Fresh(sprite)
        /\ Fresh(sprite')
        /\ Params(sprite') # Params(sprite) =>
              \A i \in 1..Len(sprite'.transformed_cells) :
                  i # sprite'.current_cell_index + 1
                  => sprite'.transformed_cells[i] = None
      ]_vars

\* a flipped and turned sprite of three cells, two of them cached since
C14_Witness ==
    /\ Len(sprite.cells) = 3
    /\ sprite.flip_x
    /\ sprite.angle = 90
    /\ sprite.transformed_cells[1] # None
    /\ sprite.transformed_cells[2] # None
    /\ sprite.transformed_cells[3] = None
    /\ last.op = "frame_step"

----------------------------------------------------------------------------
(* Claims on the sprite's image and animation *)

\* the step assigns to sprite.image a descriptor other than the one it has
OtherImageAssigned ==
    last'.op = "set_image" /\ last'.arg # sprite.image_descriptor

\* C15: assigning a different image to a sprite sets the current cell index
\* to 0 and the accumulated cell time to 0, and leaves an animation rate that
\* was set (one that is not None) and its time per cell as they were.
C15_NewImageRestartsKeepsRate ==
    [][ OtherImageAssigned =>
           /\ sprite'.image_descriptor = last'.arg
           /\ sprite'.current_cell_index = 0
           /\ sprite'.time_current_cell_visible = 0
           /\ sprite.image_animation_rate # None =>
                 /\ sprite'.image_animation_rate = sprite.image_animation_rate
                 /\ sprite'.time_per_cell = sprite.time_per_cell
      ]_vars

\* the sheet was assigned to a sprite whose rate had been set to 2
C15_Witness ==
    /\ last = Call("set_image", "sheet.png", 0, "None")
    /\ sprite.image_descriptor = "sheet.png"
    /\ sprite.image_animation_rate = Some(2)
    /\ sprite.current_cell_index = 0
    /\ sprite.time_current_cell_visible = 0
    /\ anim_run = <<>>

\* the step assigns a sprite sheet to a sprite whose animation rate is None
SheetGivenWithoutRate ==
    /\ OtherImageAssigned
    /\ MetaFile(last'.arg) # None
    /\ sprite.image_animation_rate = None

\* C16 (as claimed): a sprite that is given a sprite sheet while no animation
\* rate was set has the rate None afterwards, one cell per frame.
C16_DefaultsToOnePerFrame ==
    [][ SheetGivenWithoutRate =>
           /\ sprite'.image_animation_rate = None
           /\ sprite'.time_per_cell = None
      ]_vars

\* C16 (amended): a sprite that is given a sprite sheet while no animation
\* rate was set (by assignment or at construction) gets the rate
\* rows * cols, the number of cells, in cells per second: the time per cell
\* is 1000 / (rows * cols) ms, the whole sheet is shown once a second.
C16_DefaultsToCellCount ==
    [][ /\ last.op = "init" =>
              sprite.image_animation_rate =
                 (IF MetaFile(sprite.image_descriptor) # None
                     THEN Some(Len(sprite.cells)) ELSE None)
        /\ SheetGivenWithoutRate =>
              /\ Len(sprite'.cells) > 1
              /\ sprite'.image_animation_rate = Some(Len(sprite'.cells))
              /\ sprite'.time_per_cell = Some(Ms(1000) \div Len(sprite'.cells))
      ]_vars

\* the sheet of three cells was assigned and the rate is 3, which no
\* assignment of a rate gives in the model
C16_Witness ==
    /\ last = Call("set_image", "sheet.png", 0, "None")
    /\ sprite.image_animation_rate = Some(3)
    /\ sprite.time_per_cell = Some(Ms(1000) \div 3)
    /\ Len(sprite.cells) = 3

\* C17: assigning to a sprite the image descriptor it already has changes
\* nothing: the current cell index, the accumulated cell time, the animation
\* rate, the cells, the transformed-cell cache and the position stay, so an
\* animation in progress goes on from where it was.
C17_SameImageIsNoOp ==
    [][ (last'.op = "set_image" /\ last'.arg = sprite.image_descriptor) =>
           /\ last'.ret = "None"
           /\ sprite'.current_cell_index = sprite.current_cell_index
           /\ sprite'.time_current_cell_visible = sprite.time_current_cell_visible
           /\ sprite'.image_animation_rate = sprite.image_animation_rate
           /\ sprite'.cells = sprite.cells
           /\ sprite'.transformed_cells = sprite.transformed_cells
           /\ sprite'.x = sprite.x /\ sprite'.y = sprite.y
           /\ sprite' = sprite
           /\ anim_run' = anim_run
      ]_vars

\* the sheet assigned again in the middle of its animation
C17_Witness ==
    /\ last = Call("set_image", "sheet.png", 0, "None")
    /\ sprite.image_descriptor = "sheet.png"
    /\ sprite.current_cell_index = 2
    /\ sprite.time_current_cell_visible > 0
    /\ sprite.transformed_cells[1] # None
    /\ sprite.transformed_cells[2] # None
    /\ Len(anim_run) = 2

\* the step is a frame of a sprite whose animation rate is a number > 0
TimedFrame ==
    /\ last'.op = "frame_step"
    /\ sprite.image_animation_rate # None
    /\ sprite.image_animation_rate[1] > 0

\* C18: with an animation rate R > 0 the time per cell is 1000 / R ms, and
\* an update with the elapsed time dt adds dt to the accumulated time; when
\* the sum is at least the time per cell, the index moves on by
\* floor(sum / time per cell) modulo the number of cells and the
\* accumulated time becomes the remainder; otherwise the index stays and
\* the accumulated time is the sum.  (Times in sixths of a millisecond; the
\* comparison and the division are stated on sum * R against 1000.)
C18_TimedAdvance ==
    [][ TimedFrame =>
           LET R == sprite.image_animation_rate[1]
               sum == sprite.time_current_cell_visible + Ms(last'.val)
               n == (sum * R) \div Ms(1000)
           IN  /\ sprite.time_per_cell # None
               /\ sprite.time_per_cell[1] * R = Ms(1000)
               /\ IF sum * R >= Ms(1000)
                     THEN /\ sprite'.current_cell_index =
                                (sprite.current_cell_index + n) % Len(sprite.cells)
                          /\ sprite'.time_current_cell_visible * R
                                = sum * R - n * Ms(1000)
                     ELSE /\ sprite'.current_cell_index =
                                sprite.current_cell_index
                          /\ sprite'.time_current_cell_visible = sum
      ]_vars

\* three cells at the rate 3: 600 ms move the index from 0 to 1 and leave
\* 266 2/3 ms, 600 ms more move it by two cells, to 0, and leave 200 ms
C18_Witness ==
    /\ anim_run = <<600, 600>>
    /\ Len(sprite.cells) = 3
    /\ sprite.image_animation_rate = Some(3)
    /\ sprite.current_cell_index = 0
    /\ sprite.time_current_cell_visible = Ms(200)

\* the sprite has three cells, the rate 2, and since its image was assigned
\* it has gone through n frames of 600 ms each and nothing else
AfterFramesOf600(n) ==
    /\ Len(sprite.cells) = 3
    /\ sprite.image_animation_rate = Some(2)
    /\ anim_run = [i \in 1..n |-> 600]

\* C19: a sprite of 3 cells with the animation rate 2, at index 0 with no
\* accumulated time, goes through three frames of 600 ms at the indices
\* 0, 1, 2: each frame draws the cell of its index and then its update
\* crosses the threshold of 500 ms once and carries the remainder (100,
\* 200, 300 ms), which leaves the index at 1, at 2, and, wrapped, at 0.
C19_ThreeFramesOf600 ==
    /\ AfterFramesOf600(0) =>
          /\ sprite.current_cell_index = 0
          /\ sprite.time_current_cell_visible = 0
    /\ AfterFramesOf600(1) =>
          /\ sprite.current_cell_index = 1
          /\ sprite.time_current_cell_visible = Ms(100)
          /\ sprite.transformed_cells[1] # None
    /\ AfterFramesOf600(2) =>
          /\ sprite.current_cell_index = 2
          /\ sprite.time_current_cell_visible = Ms(200)
          /\ sprite.transformed_cells[2] # None
    /\ AfterFramesOf600(3) =>
          /\ sprite.current_cell_index = 0
          /\ sprite.time_current_cell_visible = Ms(300)
          /\ sprite.transformed_cells[3] # None

\* the three frames were made
C19_Witness ==
    /\ AfterFramesOf600(3)
    /\ last = Call("frame_step", "-", 600, "None")
    /\ \A i \in 1..3 : sprite.transformed_cells[i] # None

\* C20: with the animation rate None every update moves the current cell
\* index on by exactly 1 modulo the number of cells, whatever delta_time is,
\* when the sprite has more than one cell, and leaves it when the sprite has
\* one cell; with the animation rate 0 no update changes the index.
C20_PerFrameAndFrozen ==
    [][ last'.op = "frame_step" =>
           /\ sprite.image_animation_rate = None =>
                 /\ sprite.time_per_cell = None
                 /\ sprite'.current_cell_index =
                       (IF Len(sprite.cells) > 1
                           THEN (sprite.current_cell_index + 1) % Len(sprite.cells)
                           ELSE sprite.current_cell_index)
           /\ sprite.image_animation_rate = Some(0) =>
                 sprite'.current_cell_index = sprite.current_cell_index
      ]_vars

\* three cells and the rate None: frames that add up to 800 ms, the last
\* one of 600 ms, each moved the index, the last one back to the first cell
C20_Witness ==
    /\ sprite.image_animation_rate = None
    /\ Len(sprite.cells) = 3
    /\ last = Call("frame_step", "-", 600, "None")
    /\ sprite.current_cell_index = 0
    /\ sprite.time_current_cell_visible = Ms(800)
    /\ \A i \in 1..3 : sprite.transformed_cells[i] # None

----------------------------------------------------------------------------
(* Layers *)

\* the step was a set_layer call that went through
LayerSet == last'.op = "set_layer" /\ last'.ret = "None"

\* the entries of lst other than o, in their order
Others(lst, o) == SelectSeq(lst, LAMBDA x : x # o)

\* min(i, n)
Least(i, n) == IF i < n THEN i ELSE n

\* what set_layer(obj, i) is to do on a draw list of N entries: the object
\* is then found at layer min(i, N-1) and the other objects keep their order
LayerIsSet(o, i) ==
    /\ Len(draw_list') = Len(draw_list)
    /\ InList(o, draw_list')
    /\ Index(o, draw_list') = Least(i, Len(draw_list) - 1)
    /\ Others(draw_list', o) = Others(draw_list, o)

\* C21 as written: set_layer(obj, i) with i >= 0 on any object of the draw
\* list leaves get_layer(obj) = min(i, N-1) and the order of the other
\* objects as it was. It fails on an object that was added twice: on
\* [A,A,B], set_layer(A, 2) gives [A,B,A], and get_layer(A) is 0.
C21_SetLayerAny ==
    [][LayerSet => LayerIsSet(last'.arg, last'.val)]_vars

\* C21, amended: set_layer(obj, i) with i >= 0 on an object that is in the
\* draw list of N entries exactly once leaves get_layer(obj) = min(i, N-1)
\* and the relative order of all other objects unchanged
C21_SetLayerOnce ==
    [][(LayerSet /\ Count(last'.arg, draw_list) = 1)
          => LayerIsSet(last'.arg, last'.val)]_vars

\* set_layer(A, 2) has given [B,C,A]
C21_Witness ==
    /\ last = [Op("set_layer", "A", "None") EXCEPT !.val = 2]
    /\ draw_list = <<"B", "C", "A">>

\* the step was a call of the layer operation `name' that went through
LayerOp(name) == last'.op = name /\ last'.ret = "None"

\* o is the front-most entry of the draw list
FrontMost(o) == draw_list # <<>> /\ draw_list[Len(draw_list)] = o

\* o is the back-most entry of the draw list
BackMost(o) == draw_list # <<>> /\ draw_list[1] = o

\* C22 as written: move_forward on the front-most object and move_backward
\* on the back-most object leave the draw list as it was. It fails for
\* move_forward on an object that was added twice: on [A,B,A] the
\* front-most object is A, and move_forward(A) gives [B,A,A].
C22_BoundaryNoOpAny ==
    [][/\ (LayerOp("move_forward") /\ FrontMost(last'.arg))
            => draw_list' = draw_list
       /\ (LayerOp("move_backward") /\ BackMost(last'.arg))
            => draw_list' = draw_list]_vars

\* C22, amended: move_forward on the front-most object, when that object is
\* in the draw list once, and move_backward on the back-most object leave
\* the draw list unchanged; the object is then still at the boundary, so
\* this holds however many times the call is repeated
C22_BoundaryNoOp ==
    [][/\ (LayerOp("move_forward") /\ FrontMost(last'.arg)
              /\ Count(last'.arg, draw_list) = 1)
            => draw_list' = draw_list
       /\ (LayerOp("move_backward") /\ BackMost(last'.arg))
            => draw_list' = draw_list]_vars

\* move_forward(C) has found C at the front of [A,B,C]
C22_Witness ==
    /\ last = [Op("move_forward", "C", "None") EXCEPT !.val = 2]
    /\ draw_list = <<"A", "B", "C">>

\* the layer operations of the window
LayerOps ==
    {"move_forward", "move_backward", "move_to_front", "move_to_back",
     "get_layer", "set_layer"}

\* o is nowhere in the draw list
Absent(o) == \A i \in 1..Len(draw_list) : draw_list[i] # o

\* C23: a layer operation called with an object that is not in the draw
\* list raises an error and leaves the draw list unchanged, and so does
\* add_object with something that is not a GraphicalObject
C23_FailuresChangeNothing ==
    [][/\ (last'.op \in LayerOps /\ Absent(last'.arg))
            => (last'.ret = "ValueError" /\ draw_list' = draw_list)
       /\ (last'.op = "add_object" /\ last'.arg = NotDrawable)
            => (last'.ret = "TypeError" /\ draw_list' = draw_list)]_vars

\* move_to_front(B) has failed on a scene that holds A and C only
C23_Witness ==
    /\ last = Op("move_to_front", "B", "ValueError")
    /\ draw_list = <<"A", "C">>

\* C28: set_layer(obj, i) with i below the number of objects puts obj at
\* index i, just behind the object that occupied layer i before the call:
\* that object is directly in front of obj afterwards. The code does so only
\* for an obj that was in front of layer i; on [A,B,C], set_layer(A, 1)
\* gives [B,A,C], where B, which occupied layer 1, is behind A.
C28_JustBehindPrevious ==
    [][(LayerSet /\ last'.val < Len(draw_list))
          => LET i == last'.val
                 previous == draw_list[i + 1]
             IN  /\ draw_list'[i + 1] = last'.arg
                 /\ previous # last'.arg
                      => /\ i + 2 <= Len(draw_list')
                         /\ draw_list'[i + 2] = previous]_vars

----------------------------------------------------------------------------
(* Input capture and is_running *)

\* the step was a finish_frame() call
FrameStep == last'.op = "finish_frame"

\* evs holds an event of the type
HasType(evs, type) == \E i \in 1..Len(evs) : evs[i].type = type

\* the step was the query `name', called without a key, and what it
\* reported is whether the event list of the frame holds the type
Reports(name, type) ==
    (last'.op = name /\ last'.arg = NoKey)
        => (last'.ret = "True" <=> HasType(events, type))

\* the entries of the trace that are captures
Captures(log) == {i \in 1..Len(log) : log[i][1] = "capture"}

\* C24: every finish_frame() replaces the frame's event set by what it
\* drained from the backend, once, after the removal of the destroyed
\* objects; nothing else changes the set, and a was_... query reports its
\* event type exactly when the set, that of the most recent finish_frame(),
\* holds an event of that type
C24_EventsOfLastFrame ==
    [][/\ FrameStep =>
            /\ events' = queue
            /\ queue' = <<>>
            /\ Captures(frame_log') = {Len(frame_log')}
            /\ \A i \in 1..Len(frame_log') :
                  frame_log'[i][1] = "remove" => i < Len(frame_log')
       /\ ~FrameStep => events' = events
       /\ Reports("was_mouse_pressed", MOUSEBUTTONDOWN)
       /\ Reports("was_mouse_released", MOUSEBUTTONUP)
       /\ Reports("was_key_pressed", KEYDOWN)
       /\ Reports("was_key_released", KEYUP)]_vars

\* after a frame that drained a key press only, with a mouse press already
\* queued for the next frame, was_mouse_pressed() has reported False
C24_Witness ==
    /\ last = Op("was_mouse_pressed", NoKey, "False")
    /\ events = <<Event(KEYDOWN, "a")>>
    /\ queue = <<Event(MOUSEBUTTONDOWN, NoKey)>>

\* C25: is_running is True when the window is made; a step makes it False
\* exactly when it is a finish_frame() whose captured events hold a QUIT,
\* and no step makes it True again; finish_frame() called with is_running
\* False still clears, draws and updates every live object, flips, removes
\* the destroyed objects and captures the events
C25_RunningUntilQuit ==
    /\ is_running = TRUE
    /\ [][/\ is_running' =
                (is_running /\ ~(FrameStep /\ HasType(events', QUIT)))
          /\ (FrameStep /\ ~is_running) =>
                /\ frame_log'[1] = <<"fill", "-">>
                /\ \A i \in 1..Len(draw_list) :
                      draw_list[i] \notin destroyed =>
                         /\ \E j \in 1..Len(frame_log') :
                               frame_log'[j] = <<"draw", draw_list[i]>>
                         /\ \E j \in 1..Len(frame_log') :
                               frame_log'[j] = <<"update", draw_list[i]>>
                /\ \E j \in 1..Len(frame_log') : frame_log'[j] = <<"flip", "-">>
                /\ \A i \in 1..Len(draw_list') : draw_list'[i] \notin destroyed
                /\ frame_log'[Len(frame_log')] = <<"capture", "-">>
                /\ events' = queue]_vars

\* a frame has been done in full after the one that saw the QUIT
C25_Witness ==
    /\ ~is_running
    /\ last.op = "finish_frame"
    /\ events = <<Event(KEYDOWN, "a")>>
    /\ \E j \in 1..Len(frame_log) : frame_log[j] = <<"update", "A">>

----------------------------------------------------------------------------
(* The chooser *)

\* lst without its entry at position j
Without(lst, j) ==
    [i \in 1..(Len(lst) - 1) |-> IF i < j THEN lst[i] ELSE lst[i + 1]]

\* how often the item is in the list
Times(item, lst) == Cardinality({i \in 1..Len(lst) : lst[i] = item})

\* the lists hold the same items, each as often
SameItems(lst1, lst2) ==
    /\ Len(lst1) = Len(lst2)
    /\ \A i \in 1..Len(lst1) : Times(lst1[i], lst1) = Times(lst1[i], lst2)

\* C26: get_next on a non-empty list returns an element of the list and
\* takes one occurrence of it out, the rest keeping its order; on an empty
\* list it returns None and leaves the list as it is; so the items returned
\* since the load and the items still in the list are together the loaded
\* items, each as often as it was loaded, and after as many calls as the
\* list had items the list is empty
C26_WithoutReplacement ==
    /\ [][last'.op = "get_next" =>
            IF choices = <<>>
               THEN choice' = None /\ choices' = choices
               ELSE \E j \in 1..Len(choices) :
                       /\ choice' = Some(choices[j])
                       /\ choices' = Without(choices, j)]_vars
    /\ [](/\ SameItems(picked \o choices, loaded)
          /\ Len(picked) = Len(loaded) => choices = <<>>)

\* two calls on a list of two equal names have returned both and left the
\* list empty
C26_Witness ==
    /\ last = Op("get_next", "-", "item")
    /\ loaded = <<<<"a", NL>>, <<"a", NL>>>>
    /\ picked = <<<<"a", NL>>, <<"a", NL>>>>
    /\ choices = <<>>

\* C27: load_class returns the lines of the file in order without the
\* white-space lines, and no returned item begins or ends with a white-space
\* character. The code strips ".,-;!@#$%^&* " only, so the newline that
\* readlines() leaves at the end of a line stays: the file "a\n" gives
\* ["a\n"].
C27_ItemsStripped ==
    [][last'.op = "load_class" =>
          /\ Len(choices') =
                Len(SelectSeq(ReadLines(file), LAMBDA line : ~IsSpace(line)))
          /\ \A i \in 1..Len(choices') :
                choices'[i] # <<>> =>
                   /\ choices'[i][1] \notin Whitespace
                   /\ choices'[i][Len(choices'[i])] \notin Whitespace]_vars

----------------------------------------------------------------------------
(* The cells of the Sprite *)

\* C29: in every state of the Sprite the cache of transformed cells has as
\* many entries as there are raw cells, and the index of the current cell
\* is one of a raw cell: 0 <= index < number of cells
C29_CacheAndIndexInRange ==
    /\ Len(sprite.transformed_cells) = Len(sprite.cells)
    /\ 0 <= sprite.current_cell_index
    /\ sprite.current_cell_index < Len(sprite.cells)

\* two frames of 600 ms have taken the sheet of three cells, shown at three
\* cells a second, past its last cell and back to cell 0
C29_Witness ==
    /\ anim_run = <<600, 600>>
    /\ Len(sprite.cells) = 3
    /\ sprite.image_animation_rate = Some(3)
    /\ sprite.current_cell_index = 0

----------------------------------------------------------------------------
(* The size of the channel pool *)

\* every channel of the pool is playing
AllBusy(chs) == \A i \in 1..Len(chs) : chs[i].snd # "none"

\* C30: the pool never holds more than MAX_AUDIO_CHANNELS channels; only
\* play() changes its size, by one channel more, and only when no channel
\* was free and the pool was below the ceiling
C30_PoolWithinCeiling ==
    /\ [](Len(channels) <= MAX_AUDIO_CHANNELS)
    /\ [][Len(channels') # Len(channels) =>
             /\ last'.op = "play"
             /\ Len(channels') = Len(channels) + 1
             /\ AllBusy(channels)
             /\ Len(channels) < MAX_AUDIO_CHANNELS]_vars

\* a play() has gone through and the pool, at the ceiling, is all playing
C30_Witness ==
    /\ last = Op("play", "effect", "True")
    /\ Len(channels) = MAX_AUDIO_CHANNELS
    /\ AllBusy(channels)

----------------------------------------------------------------------------
(* The stored lines and the line height of a label *)

\* C32: the stored lines are the wrap of the current text at the current
\* wrap width under the current font at its current size, whatever was
\* assigned last
C32_LinesAreWrapOfText ==
    lbl_lines = WrapIntoLines(lbl_text, lbl_font, lbl_width)

\* the font size was just doubled and the text, which was one line at the
\* old size, is two lines now
C32_Witness ==
    /\ last.op = "set_font_size"
    /\ lbl_font.size = 2
    /\ Len(WrapIntoLines(lbl_text, Font(lbl_font.name, 1), lbl_width)) = 1
    /\ Len(lbl_lines) = 2

\* C33: the line height is the reference-alphabet height of the current
\* font at its current size times the current line spacing, and the label
\* height is that line height times the number of lines
C33_LineHeightOfCurrentFont ==
    /\ lbl_pixel_line_height = AlphabetHeight(lbl_font) * lbl_line_spacing
    /\ height = AlphabetHeight(lbl_font) * lbl_line_spacing * Len(lbl_lines)

----------------------------------------------------------------------------
(* Empty lines in the layout of a label *)

\* C31: the layout has at least one line, and the layout of the empty text
\* is exactly one empty line
C31_AtLeastOneLine ==
    /\ Len(lbl_lines) >= 1
    /\ lbl_text = <<>> => lbl_lines = << <<>> >>

\* the text is non-empty words with single spaces and single newlines
\* between them: no word of any paragraph is empty
SingleSeparators ==
    \A k \in 1..Len(Split(lbl_text, NL)) :
        LET words == Split(Split(lbl_text, NL)[k], SP)
        IN  \A j \in 1..Len(words) : words[j] # <<>>

\* the text is one word, and the word is wider than the wrap width
OneWideWord ==
    /\ lbl_text # <<>>
    /\ \A i \in 1..Len(lbl_text) : lbl_text[i] \notin {SP, NL}
    /\ Measure(lbl_font, lbl_text) > lbl_width

\* C37: a text of non-empty words with single separators is laid out
\* without an empty line, and a text that is one over-wide word as exactly
\* one line
C37_NoEmptyLine ==
    /\ SingleSeparators => \A i \in 1..Len(lbl_lines) : lbl_lines[i] # <<>>
    /\ OneWideWord => Len(lbl_lines) = 1

----------------------------------------------------------------------------
(* The contents of the draw list under the layer operations *)

\* the operations that move an object to another layer
Relayering ==
    {"move_forward", "move_backward", "move_to_front", "move_to_back",
     "set_layer"}

\* after is a permutation of before: the same length and every object as
\* many times
Permutation(before, after) ==
    /\ Len(after) = Len(before)
    /\ \A x \in Objects : Count(x, after) = Count(x, before)

\* C34: every layer operation leaves a permutation of the draw list, with
\* the objects other than the moved one in the order they were in
C34_LayerOpsPermute ==
    [][last'.op \in Relayering
          => /\ Permutation(draw_list, draw_list')
             /\ Others(draw_list', last'.arg) = Others(draw_list, last'.arg)]_vars

\* move_to_back(C) has gone through on a scene of three objects: C is at the
\* back and A is still behind B
C34_Witness ==
    /\ last = Op("move_to_back", "C", "None")
    /\ draw_list = <<"C", "A", "B">>

----------------------------------------------------------------------------
(* The paused flag of a Sound and its channels *)

\* C35: the paused flag of every Sound agrees with the channels: while it
\* is set every channel the Sound is on is paused, while it is clear none is
C35_FlagAgreesWithChannels ==
    \A s \in Sounds :
        \A i \in 1..Len(channels) :
            channels[i].snd = s => (channels[i].paused <=> snd_paused[s])

\* play() was just refused on a paused Sound that is on two channels, both
\* paused, while the other Sound plays on
C35_Witness ==
    /\ last = Op("play", "effect", "PlayWhilePaused")
    /\ snd_paused["effect"] /\ ~snd_paused["drums"]
    /\ NumCopies("effect", channels) >= 2
    /\ \E i \in 1..Len(channels) :
          channels[i] = [snd |-> "drums", paused |-> FALSE]

----------------------------------------------------------------------------
(* The scaled size of a sprite's cell *)

\* C36: the current raw cell scaled by the sprite's scale is at least 1
\* pixel wide and 1 pixel high: int(cell_width * scale) >= 1 and
\* int(cell_height * scale) >= 1
C36_ScaledCellAtLeastOnePixel ==
    /\ ToInt(CurrentCell(sprite).w * sprite.scale, 4) >= 1
    /\ ToInt(CurrentCell(sprite).h * sprite.scale, 4) >= 1

====
